---- MODULE Spec2Model ----
(***************************************************************************)
(* Model of the weather dashboard GUI (src/GuI_weather_report.py):         *)
(* the owner (Tk) thread with its user callbacks and the process_queue     *)
(* poll, the worker threads started for each fetch, the shared             *)
(* queue.Queue, and the WeatherAPI client with its single HTTP session.    *)
(***************************************************************************)
EXTENDS Integers, Sequences, FiniteSets, TLC

VARIABLES
    queue,                 \* self.queue: FIFO of (message_type, data, city)
    threads,               \* threading.Thread objects started so far, in start order
    session,               \* requests in flight on WeatherAPI.session
    poll,                  \* process_queue: "pending" (after() armed), "running", "stopped"
    cities_listbox,        \* comparison list
    weather_text,          \* current weather panel
    forecast_text,         \* forecast panel
    comparison_tree,       \* comparison table rows
    status_var,            \* status line
    current_weather_data,  \* stored snapshot
    clicks,                \* history: fetch actions accepted so far
    enqueued,              \* history: the thread of every message put, in put order
    applied,               \* history: the thread of every message process_queue
                           \* took, in order
    pass_todo,             \* history: messages present at the start of the running
                           \* pass that the pass has not taken yet
    answers,               \* history: what the network answered to every call of a
                           \* comparison worker, in order
    last_call,             \* history: the last operation observed, with its
                           \* argument and the value it started from or returned
    client_trace,          \* history: the calls of the weather client, the GETs it
                           \* issued and what it returned, in order
    cities_writes,         \* the writes made to the lists of self.cities_db.cities
                           \* since construction: list -> its items now
    widgets                \* the city browser's and the selection dialog's
                           \* widgets whose content is no longer what
                           \* create_widgets left: widget -> its content now

vars == <<queue, threads, session, poll, cities_listbox, weather_text, forecast_text,
          comparison_tree, status_var, current_weather_data, clicks, enqueued,
          applied, pass_todo, answers, last_call, client_trace, cities_writes,
          widgets>>

uiVars == <<weather_text, forecast_text, comparison_tree, status_var,
            current_weather_data>>

histVars == <<clicks, enqueued, applied, pass_todo>>

\* The dashboard's own state: everything but the observers
guiVars == <<queue, threads, session, poll, cities_listbox, weather_text,
             forecast_text, comparison_tree, status_var, current_weather_data,
             clicks, enqueued, applied, pass_todo>>

\* Observers of the other specifications; no callback, worker or poll step
\* reads or writes them
auxVars == <<answers, last_call, client_trace, cities_writes, widgets>>

-----------------------------------------------------------------------------
(* Bounds and input sets *)

MaxRequests == 2            \* worker threads started in one run

Cities == {"Paris", "Tokyo"}

\* What the user can have typed in a city entry
EntryTexts == Cities \cup {"", " "}

\* str.strip() on the entry texts above
strip(text) == IF text = " " THEN "" ELSE text

MainThread == 0             \* the owner thread; workers are 1, 2, ...

\* Top-level keys of a current-weather payload the GUI reads, in the order
\* format_current_weather and display_comparison read them
WeatherKeys == <<"main", "weather">>

\* Top-level keys of a forecast payload, in the order format_forecast reads them
ForecastKeys == <<"city", "list">>

Range(s) == {s[i] : i \in 1..Len(s)}

-----------------------------------------------------------------------------
(* Values.  Every `data` is a record of one shape so that values compare. *)

None == [tag |-> "None", keys |-> {}, q |-> "", rows |-> <<>>]

\* A decoded JSON object answering query q, holding the top-level keys ks
Json(ks, q) == [tag |-> "Json", keys |-> ks, q |-> q, rows |-> <<>>]

\* str(e) of an exception
Str(e) == [tag |-> "Str", keys |-> {}, q |-> e, rows |-> <<>>]

\* The list fetch_comparison_data builds
List(rows) == [tag |-> "List", keys |-> {}, q |-> "", rows |-> rows]

\* Python truth value: None, {} and [] are false
Truthy(d) ==
    CASE d.tag = "None" -> FALSE
      [] d.tag = "Json" -> d.keys # {}
      [] d.tag = "List" -> d.rows # <<>>
      [] OTHER -> TRUE

\* The payloads a 2xx answer is drawn from: the complete one and the one
\* that lacks the first key read
Payloads(keys) == {Range(keys), Range(keys) \ {Head(keys)}}

\* What one HTTP GET can do: fail in transport (a RequestException: DNS,
\* refused, timeout, non-2xx), fail otherwise (any other exception), or
\* answer with a JSON object
Outcomes(keys) ==
    {[res |-> "RequestException", keys |-> {}], [res |-> "Exception", keys |-> {}]}
        \cup {[res |-> "json", keys |-> ks] : ks \in Payloads(keys)}

\* First key of `order` absent from the payload, "" when all are present
RECURSIVE MissingKey(_, _)
MissingKey(d, order) ==
    IF order = <<>> THEN ""
    ELSE IF Head(order) \notin d.keys THEN Head(order)
    ELSE MissingKey(d, Tail(order))

-----------------------------------------------------------------------------
(* WeatherAPI *)

\* Mutant of get_weather_data: no except clause, the RequestException escapes
get_weather_data_uncaught(o, city) ==
    CASE o.res = "json" -> [raised |-> FALSE, value |-> Json(o.keys, city)]
      [] OTHER -> [raised |-> TRUE, value |-> Str(o.res)]

\* get_weather_data: the value returned, or the exception that escapes
get_weather_data(o, city) ==
    CASE o.res = "json" -> [raised |-> FALSE, value |-> Json(o.keys, city)]
      [] o.res = "RequestException" -> [raised |-> FALSE, value |-> None]
      [] OTHER -> [raised |-> TRUE, value |-> Str(o.res)]

\* get_forecast_data: same transport discipline
get_forecast_data(o, city) ==
    CASE o.res = "json" -> [raised |-> FALSE, value |-> Json(o.keys, city)]
      [] o.res = "RequestException" -> [raised |-> FALSE, value |-> None]
      [] OTHER -> [raised |-> TRUE, value |-> Str(o.res)]

-----------------------------------------------------------------------------
(* Strings, lists and dicts of the city directory *)

Upper == <<"A", "B", "C", "D", "E", "F", "G", "H", "I", "J", "K", "L", "M",
           "N", "O", "P", "Q", "R", "S", "T", "U", "V", "W", "X", "Y", "Z">>

Lower == <<"a", "b", "c", "d", "e", "f", "g", "h", "i", "j", "k", "l", "m",
           "n", "o", "p", "q", "r", "s", "t", "u", "v", "w", "x", "y", "z">>

\* The characters of a city name of the catalog
chars(s) ==
    CASE s = "Toronto" -> <<"T", "o", "r", "o", "n", "t", "o">>
      [] s = "Hamilton" -> <<"H", "a", "m", "i", "l", "t", "o", "n">>
      [] s = "London" -> <<"L", "o", "n", "d", "o", "n">>
      [] s = "León" -> <<"L", "e", "ó", "n">>
      [] s = "São Paulo" -> <<"S", "ã", "o", " ", "P", "a", "u", "l", "o">>
      [] s = "Leeds" -> <<"L", "e", "e", "d", "s">>
      [] s = "Paris" -> <<"P", "a", "r", "i", "s">>
      [] s = "Lyon" -> <<"L", "y", "o", "n">>
      [] s = "Tokyo" -> <<"T", "o", "k", "y", "o">>
      [] s = "Osaka" -> <<"O", "s", "a", "k", "a">>
      [] s = "Cairo" -> <<"C", "a", "i", "r", "o">>
      [] s = "East London" -> <<"E", "a", "s", "t", " ", "L", "o", "n", "d", "o", "n">>
      [] s = "Nelson" -> <<"N", "e", "l", "s", "o", "n">>

\* ord(c): the code point of a character
ord(c) ==
    IF \E i \in 1..Len(Upper) : Upper[i] = c
    THEN 64 + (CHOOSE i \in 1..Len(Upper) : Upper[i] = c)
    ELSE IF \E i \in 1..Len(Lower) : Lower[i] = c
    THEN 96 + (CHOOSE i \in 1..Len(Lower) : Lower[i] = c)
    ELSE CASE c = " " -> 32
           [] c = "-" -> 45
           [] c = "ã" -> 227
           [] c = "ó" -> 243

\* str.lower() on a sequence of characters
lower(cs) ==
    [n \in 1..Len(cs) |->
        IF \E i \in 1..Len(Upper) : Upper[i] = cs[n]
        THEN Lower[CHOOSE i \in 1..Len(Upper) : Upper[i] = cs[n]]
        ELSE cs[n]]

\* a < b on str: by code point, a proper prefix first
RECURSIVE str_lt(_, _)
str_lt(a, b) ==
    IF b = <<>> THEN FALSE
    ELSE IF a = <<>> THEN TRUE
    ELSE IF Head(a) # Head(b) THEN ord(Head(a)) < ord(Head(b))
    ELSE str_lt(Tail(a), Tail(b))

\* `sub in s` on str
contains(sub, s) ==
    \E i \in 1..(Len(s) - Len(sub) + 1) : SubSeq(s, i, i + Len(sub) - 1) = sub

\* A list object: its identity and its items.  The lists the catalog holds
\* are identified by their country; "new" is a list no one else holds.
PyList(id, items) == [id |-> id, items |-> items]

NewList(items) == PyList("new", items)

\* x put into an ascending sequence, before the first item not below it
RECURSIVE insort(_, _)
insort(x, l) ==
    IF l = <<>> THEN <<x>>
    ELSE IF str_lt(chars(Head(l)), chars(x)) THEN <<Head(l)>> \o insort(x, Tail(l))
    ELSE <<x>> \o l

RECURSIVE sorted_items(_)
sorted_items(items) ==
    IF items = <<>> THEN <<>> ELSE insort(Head(items), sorted_items(Tail(items)))

\* sorted(iterable): a new list, ascending, stable
sorted(items) == NewList(sorted_items(items))

\* seq[:n]: a new list
slice(items, n) ==
    NewList(IF n >= 0
            THEN SubSeq(items, 1, IF n < Len(items) THEN n ELSE Len(items))
            ELSE SubSeq(items, 1, IF Len(items) + n > 0 THEN Len(items) + n ELSE 0))

\* A dict is the sequence of its (key, value) pairs in insertion order
Pair(k, v) == [k |-> k, v |-> v]

\* d.values()
values(d) == [i \in 1..Len(d) |-> d[i].v]

has_key(d, k) == \E i \in 1..Len(d) : d[i].k = k

getitem(d, k) == d[CHOOSE i \in 1..Len(d) : d[i].k = k].v

Country(country, names) == Pair(country, PyList(country, names))

\* self.cities: an excerpt of the catalog that keeps the order of continents,
\* countries and cities, the two names listed under two countries (London,
\* Hamilton), a name that contains another (East London), and names with a
\* space and with letters outside ASCII
Catalog ==
    <<Pair("North America", <<Country("Canada", <<"Toronto", "Hamilton", "London">>),
                              Country("Mexico", <<"León">>)>>),
      Pair("South America", <<Country("Brazil", <<"São Paulo">>)>>),
      Pair("Europe", <<Country("United Kingdom", <<"London", "Leeds">>),
                       Country("France", <<"Paris", "Lyon">>)>>),
      Pair("Asia", <<Country("Japan", <<"Tokyo", "Osaka">>)>>),
      Pair("Africa", <<Country("Egypt", <<"Cairo">>),
                       Country("South Africa", <<"East London">>)>>),
      Pair("Oceania", <<Country("New Zealand", <<"Hamilton", "Nelson">>)>>)>>

\* self.cities_db.cities as it is now: the catalog as constructed, with the
\* lists written since holding what was written
cities_db ==
    [i \in 1..Len(Catalog) |->
        Pair(Catalog[i].k,
             [j \in 1..Len(Catalog[i].v) |->
                 IF Catalog[i].v[j].k \in DOMAIN cities_writes
                 THEN Country(Catalog[i].v[j].k, cities_writes[Catalog[i].v[j].k])
                 ELSE Catalog[i].v[j]])]

-----------------------------------------------------------------------------
(* Messages and threads *)

\* (message_type, data, city); `req` and `cause` are history: the thread
\* that put the message and how its GET ended ("" for a comparison)
Message(type, data, city, req, cause) ==
    [type |-> type, data |-> data, city |-> city, req |-> req, cause |-> cause]

\* The threads of a sequence of messages
RECURSIVE Reqs(_)
Reqs(msgs) == IF msgs = <<>> THEN <<>> ELSE <<Head(msgs).req>> \o Reqs(Tail(msgs))

\* A started thread: its target (kind), its args (cities), where it is
\* (pc), the index of the city being fetched and the results collected
Thread(kind, cities) ==
    [kind |-> kind, cities |-> cities, pc |-> "ready", i |-> 1, results |-> <<>>]

\* queue.Queue.put and get_nowait
put(q, msg) == Append(q, msg)

\* Mutant of get_nowait: a LIFO queue
get_nowait_lifo(q) == [item |-> q[Len(q)], rest |-> SubSeq(q, 1, Len(q) - 1)]

get_nowait(q) == [item |-> Head(q), rest |-> Tail(q)]

\* put for each message of msgs in turn
RECURSIVE put_all(_, _)
put_all(q, msgs) ==
    IF msgs = <<>> THEN q ELSE put_all(put(q, Head(msgs)), Tail(msgs))

\* The state after WeatherDashboardGUI.__init__ (its first process_queue
\* call found the queue empty and armed the timer), with the comparison
\* list holding `listbox`
Constructed(listbox) ==
    /\ queue = <<>>
    /\ threads = <<>>
    /\ session = {}
    /\ poll = "pending"
    /\ cities_listbox = listbox
    /\ weather_text = [line |-> "empty", city |-> "", missing |-> ""]
    /\ forecast_text = [line |-> "empty", city |-> "", missing |-> ""]
    /\ comparison_tree = <<>>
    /\ status_var = [msg |-> "Ready", city |-> "", n |-> 0]
    /\ current_weather_data = Json({}, "")
    /\ clicks = 0
    /\ enqueued = <<>>
    /\ applied = <<>>
    /\ pass_todo = 0

\* The observers before anything was observed
AuxInit ==
    /\ answers = <<>>
    /\ last_call = [op |-> "none"]
    /\ cities_writes = <<>>
    /\ widgets = <<>>
    /\ client_trace = <<>>

\* The dashboard once the user has put Paris and Tokyo on the comparison list
Init == Constructed(<<"Paris", "Tokyo">>) /\ AuxInit

-----------------------------------------------------------------------------
(* Owner thread: user callbacks.  Tk runs one callback at a time, so a user *)
(* callback runs only while no poll pass is running.                        *)

OwnerIdle == poll # "running"

\* threading.Thread(target=..., args=...).start(): one new thread
start_thread(kind, cities) == <<Thread(kind, cities)>>

Loading == [line |-> "loading", city |-> "", missing |-> ""]
Status(msg, city, n) == [msg |-> msg, city |-> city, n |-> n]

\* Get Weather button; `text` is the content of the city entry
get_current_weather(text) ==
    /\ OwnerIdle
    /\ LET city == strip(text) IN
       IF city = ""
       THEN UNCHANGED guiVars                \* showwarning, return
       ELSE /\ Len(threads) < MaxRequests
            /\ status_var' = Status("Fetching weather data for", city, 0)
            /\ weather_text' = Loading
            /\ threads' = threads \o start_thread("current", <<city>>)
            /\ clicks' = clicks + 1
            /\ UNCHANGED <<queue, session, poll, cities_listbox, forecast_text,
                           comparison_tree, current_weather_data, enqueued, applied,
                           pass_todo>>

\* Double click on a row of the cities browser: sets the entry, then
\* get_current_weather
get_weather_from_browser(city) == get_current_weather(city)

\* Mutant of get_weather_forecast: the entry is not validated
get_weather_forecast_unchecked(text) ==
    /\ OwnerIdle
    /\ LET city == strip(text) IN
       /\ Len(threads) < MaxRequests
       /\ status_var' = Status("Fetching forecast data for", city, 0)
       /\ forecast_text' = Loading
       /\ threads' = threads \o start_thread("forecast", <<city>>)
       /\ clicks' = clicks + 1
       /\ UNCHANGED <<queue, session, poll, cities_listbox, weather_text,
                      comparison_tree, current_weather_data, enqueued, applied,
                      pass_todo>>

\* Get Forecast button
get_weather_forecast(text) ==
    /\ OwnerIdle
    /\ LET city == strip(text) IN
       IF city = ""
       THEN UNCHANGED guiVars
       ELSE /\ Len(threads) < MaxRequests
            /\ status_var' = Status("Fetching forecast data for", city, 0)
            /\ forecast_text' = Loading
            /\ threads' = threads \o start_thread("forecast", <<city>>)
            /\ clicks' = clicks + 1
            /\ UNCHANGED <<queue, session, poll, cities_listbox, weather_text,
                           comparison_tree, current_weather_data, enqueued, applied,
                           pass_todo>>

\* Mutant of add_comparison_city: no look at the names already listed
add_comparison_city_unchecked(selected_city) ==
    /\ OwnerIdle
    /\ cities_listbox' = IF selected_city # ""
                         THEN Append(cities_listbox, selected_city)
                         ELSE cities_listbox
    /\ UNCHANGED <<queue, threads, session, poll, uiVars, histVars>>

\* Add City: the dialog returned selected_city ("" when it was cancelled)
add_comparison_city(selected_city) ==
    /\ OwnerIdle
    /\ cities_listbox' = IF selected_city # "" /\ selected_city \notin Range(cities_listbox)
                         THEN Append(cities_listbox, selected_city)
                         ELSE cities_listbox
    /\ UNCHANGED <<queue, threads, session, poll, uiVars, histVars>>

\* Remove Selected: `sel` is the selected index
remove_comparison_city(sel) ==
    /\ OwnerIdle
    /\ sel \in 1..Len(cities_listbox)
    /\ cities_listbox' = SubSeq(cities_listbox, 1, sel - 1)
                            \o SubSeq(cities_listbox, sel + 1, Len(cities_listbox))
    /\ UNCHANGED <<queue, threads, session, poll, uiVars, histVars>>

\* Clear All
clear_comparison_cities ==
    /\ OwnerIdle
    /\ cities_listbox' = <<>>
    /\ comparison_tree' = <<>>
    /\ UNCHANGED <<queue, threads, session, poll, weather_text, forecast_text,
                   status_var, current_weather_data, histVars>>

\* Compare Weather button
compare_weather ==
    /\ OwnerIdle
    /\ LET cities == cities_listbox IN
       IF Len(cities) < 2
       THEN UNCHANGED guiVars
       ELSE /\ Len(threads) < MaxRequests
            /\ status_var' = Status("Fetching weather data for comparison", "", 0)
            /\ comparison_tree' = <<>>
            /\ threads' = threads \o start_thread("comparison", cities)
            /\ clicks' = clicks + 1
            /\ UNCHANGED <<queue, session, poll, cities_listbox, weather_text,
                           forecast_text, current_weather_data, enqueued, applied,
                           pass_todo>>

\* Clear button of the current weather tab
clear_current_weather ==
    /\ OwnerIdle
    /\ weather_text' = [line |-> "empty", city |-> "", missing |-> ""]
    /\ current_weather_data' = Json({}, "")
    /\ status_var' = Status("Ready", "", 0)
    /\ UNCHANGED <<queue, threads, session, poll, cities_listbox, forecast_text,
                   comparison_tree, histVars>>

-----------------------------------------------------------------------------
(* Worker threads *)

DefaultDays == 5
SamplesPerDay == 8

Workers == 1..Len(threads)

\* Mutant of executing_thread: the target is called where the thread is
\* created, Thread(target=self.fetch_current_weather(city))
executing_thread_inline(t) == MainThread

\* The thread that executes the target of started thread t
executing_thread(t) == t

\* Mutant of forecast_cnt: the day count is sent as it is
forecast_cnt_in_days(days) == days

\* 'cnt': days * 8, a sample every 3 hours
forecast_cnt(days) == days * SamplesPerDay

\* The GET a thread issues for its current city
request(t) ==
    LET th == threads[t] IN
    [thread |-> executing_thread(t),
     url |-> IF th.kind = "forecast" THEN "/forecast" ELSE "/weather",
     q |-> th.cities[th.i],
     cnt |-> IF th.kind = "forecast" THEN forecast_cnt(DefaultDays) ELSE 0]

\* A worker enters self.session.get(...) and blocks on the network
session_get(t) ==
    /\ threads[t].pc = "ready"
    /\ threads' = [threads EXCEPT ![t].pc = "in_call"]
    /\ session' = session \cup {request(t)}
    /\ UNCHANGED <<queue, poll, cities_listbox, uiVars, histVars>>

\* Mutant of current_weather_messages: the result is put, and put again by
\* the except clause
current_weather_messages_twice(r, city, t, cause) ==
    <<Message("current_weather", r.value, city, t, cause),
      Message("error", r.value, city, t, cause)>>

\* Mutant of current_weather_messages: a worker whose request has been
\* superseded by a later current-weather request drops its result
current_weather_messages_latest_only(r, city, t, cause) ==
    IF \E u \in Workers : u > t /\ threads[u].kind = "current" THEN <<>>
    ELSE IF r.raised THEN <<Message("error", r.value, city, t, cause)>>
    ELSE <<Message("current_weather", r.value, city, t, cause)>>

\* What fetch_current_weather puts, given what get_weather_data did
current_weather_messages(r, city, t, cause) ==
    IF r.raised THEN <<Message("error", r.value, city, t, cause)>>
    ELSE <<Message("current_weather", r.value, city, t, cause)>>

\* What fetch_forecast puts, given what get_forecast_data did
forecast_messages(r, city, t, cause) ==
    IF r.raised THEN <<Message("error", r.value, city, t, cause)>>
    ELSE <<Message("forecast", r.value, city, t, cause)>>

\* Mutant of fetch_current_weather: the worker also writes the status line
fetch_current_weather_sets_status(t, o) ==
    /\ threads[t].kind = "current"
    /\ threads[t].pc = "in_call"
    /\ LET city == threads[t].cities[1]
           msgs == current_weather_messages(get_weather_data(o, city), city, t, o.res)
       IN  /\ queue' = put_all(queue, msgs)
           /\ enqueued' = enqueued \o Reqs(msgs)
           /\ status_var' = Status("Weather data loaded for", city, 0)
    /\ session' = session \ {request(t)}
    /\ threads' = [threads EXCEPT ![t].pc = "done"]
    /\ UNCHANGED <<poll, cities_listbox, weather_text, forecast_text, comparison_tree,
                   current_weather_data, clicks, applied, pass_todo>>

\* The GET of thread t ends with outcome o; the rest of fetch_current_weather
fetch_current_weather(t, o) ==
    /\ threads[t].kind = "current"
    /\ threads[t].pc = "in_call"
    /\ LET city == threads[t].cities[1]
           msgs == current_weather_messages(get_weather_data(o, city), city, t, o.res)
       IN  /\ queue' = put_all(queue, msgs)
           /\ enqueued' = enqueued \o Reqs(msgs)
    /\ session' = session \ {request(t)}
    /\ threads' = [threads EXCEPT ![t].pc = "done"]
    /\ UNCHANGED <<poll, cities_listbox, uiVars, clicks, applied, pass_todo>>

\* The GET of thread t ends with outcome o; the rest of fetch_forecast
fetch_forecast(t, o) ==
    /\ threads[t].kind = "forecast"
    /\ threads[t].pc = "in_call"
    /\ LET city == threads[t].cities[1]
           msgs == forecast_messages(get_forecast_data(o, city), city, t, o.res)
       IN  /\ queue' = put_all(queue, msgs)
           /\ enqueued' = enqueued \o Reqs(msgs)
    /\ session' = session \ {request(t)}
    /\ threads' = [threads EXCEPT ![t].pc = "done"]
    /\ UNCHANGED <<poll, cities_listbox, uiVars, clicks, applied, pass_todo>>

\* Mutant of fetch_comparison_data: a city whose call fails ends the loop, and
\* the rows gathered so far are put
fetch_comparison_data_stops_at_failure(t, o) ==
    /\ threads[t].kind = "comparison"
    /\ threads[t].pc = "in_call"
    /\ LET th == threads[t]
           city == th.cities[th.i]
           r == get_weather_data(o, city)
           ok == ~r.raised /\ Truthy(r.value)
           results == IF ok
                      THEN Append(th.results, [city |-> city, data |-> r.value])
                      ELSE th.results
           msg == Message("comparison", List(results), "", t, "")
       IN  IF ok /\ th.i < Len(th.cities)
           THEN /\ threads' = [threads EXCEPT ![t].pc = "ready", ![t].i = th.i + 1,
                                              ![t].results = results]
                /\ UNCHANGED <<queue, enqueued>>
           ELSE /\ threads' = [threads EXCEPT ![t].pc = "done", ![t].results = <<>>]
                /\ queue' = put(queue, msg)
                /\ enqueued' = Append(enqueued, msg.req)
    /\ session' = session \ {request(t)}
    /\ UNCHANGED <<poll, cities_listbox, uiVars, clicks, applied, pass_todo>>

\* Mutant of fetch_comparison_data: a city whose call fails gets a row too,
\* holding the failure
fetch_comparison_data_keeps_failures(t, o) ==
    /\ threads[t].kind = "comparison"
    /\ threads[t].pc = "in_call"
    /\ LET th == threads[t]
           city == th.cities[th.i]
           r == get_weather_data(o, city)
           results == Append(th.results, [city |-> city, data |-> r.value])
           msg == Message("comparison", List(results), "", t, "")
       IN  IF th.i < Len(th.cities)
           THEN /\ threads' = [threads EXCEPT ![t].pc = "ready", ![t].i = th.i + 1,
                                              ![t].results = results]
                /\ UNCHANGED <<queue, enqueued>>
           ELSE /\ threads' = [threads EXCEPT ![t].pc = "done", ![t].results = <<>>]
                /\ queue' = put(queue, msg)
                /\ enqueued' = Append(enqueued, msg.req)
    /\ session' = session \ {request(t)}
    /\ UNCHANGED <<poll, cities_listbox, uiVars, clicks, applied, pass_todo>>

\* One turn of the loop of fetch_comparison_data: the GET for city i ends
\* with outcome o; after the last city the result list is put
fetch_comparison_data(t, o) ==
    /\ threads[t].kind = "comparison"
    /\ threads[t].pc = "in_call"
    /\ LET th == threads[t]
           city == th.cities[th.i]
           r == get_weather_data(o, city)
           results == IF ~r.raised /\ Truthy(r.value)
                      THEN Append(th.results, [city |-> city, data |-> r.value])
                      ELSE th.results
           msg == Message("comparison", List(results), "", t, "")
       IN  IF th.i < Len(th.cities)
           THEN /\ threads' = [threads EXCEPT ![t].pc = "ready", ![t].i = th.i + 1,
                                              ![t].results = results]
                /\ UNCHANGED <<queue, enqueued>>
           ELSE /\ threads' = [threads EXCEPT ![t].pc = "done", ![t].results = <<>>]
                /\ queue' = put(queue, msg)
                /\ enqueued' = Append(enqueued, msg.req)
    /\ session' = session \ {request(t)}
    /\ UNCHANGED <<poll, cities_listbox, uiVars, clicks, applied, pass_todo>>

-----------------------------------------------------------------------------
(* Owner thread: display handlers *)

Text(line, city, missing) == [line |-> line, city |-> city, missing |-> missing]

\* format_current_weather: the report, or the inline error naming the
\* first key the payload lacks (KeyError is caught)
format_current_weather(data) ==
    LET k == MissingKey(data, WeatherKeys) IN
    IF k # "" THEN Text("format_error", "", k) ELSE Text("report", data.q, "")

\* format_forecast: likewise
format_forecast(data) ==
    LET k == MissingKey(data, ForecastKeys) IN
    IF k # "" THEN Text("format_error", "", k) ELSE Text("report", data.q, "")

\* Mutant of display_current_weather: a failed result empties the snapshot
display_current_weather_forgets_on_failure(weather_data, city) ==
    IF ~Truthy(weather_data)
    THEN /\ weather_text' = Text("error", city, "")
         /\ status_var' = Status("Error fetching weather data", "", 0)
         /\ current_weather_data' = Json({}, "")
         /\ UNCHANGED <<forecast_text, comparison_tree>>
    ELSE /\ current_weather_data' = weather_data
         /\ weather_text' = format_current_weather(weather_data)
         /\ status_var' = Status("Weather data loaded for", city, 0)
         /\ UNCHANGED <<forecast_text, comparison_tree>>

\* display_current_weather(weather_data, city).  With payloads told apart by
\* their top-level keys it raises nothing: format_current_weather catches
\* the KeyError, create_current_weather_chart catches every exception
display_current_weather(weather_data, city) ==
    IF ~Truthy(weather_data)
    THEN /\ weather_text' = Text("error", city, "")
         /\ status_var' = Status("Error fetching weather data", "", 0)
         /\ UNCHANGED <<forecast_text, comparison_tree, current_weather_data>>
    ELSE /\ current_weather_data' = weather_data
         /\ weather_text' = format_current_weather(weather_data)
         /\ status_var' = Status("Weather data loaded for", city, 0)
         /\ UNCHANGED <<forecast_text, comparison_tree>>

\* display_forecast(forecast_data, city)
display_forecast(forecast_data, city) ==
    IF ~Truthy(forecast_data)
    THEN /\ forecast_text' = Text("error", city, "")
         /\ status_var' = Status("Error fetching forecast data", "", 0)
         /\ UNCHANGED <<weather_text, comparison_tree, current_weather_data>>
    ELSE /\ forecast_text' = format_forecast(forecast_data)
         /\ status_var' = Status("Forecast data loaded for", city, 0)
         /\ UNCHANGED <<weather_text, comparison_tree, current_weather_data>>

\* The rows display_comparison inserts before it finishes or raises: the
\* results up to the first whose payload lacks a key the row needs
RECURSIVE rows_inserted(_)
rows_inserted(results) ==
    IF results = <<>> THEN <<>>
    ELSE IF MissingKey(Head(results).data, WeatherKeys) # "" THEN <<>>
    ELSE <<[city |-> Head(results).city]>> \o rows_inserted(Tail(results))

\* display_comparison raises KeyError when a payload lacks a key: the row
\* loop has no try/except
display_comparison_raises(comparison_results) ==
    Len(rows_inserted(comparison_results.rows)) < Len(comparison_results.rows)

\* Mutant of display_comparison: rows only for cities still on the list
display_comparison_listed_cities_only(comparison_results) ==
    IF ~Truthy(comparison_results)
    THEN UNCHANGED uiVars
    ELSE /\ comparison_tree' =
               LET listed(row) == row.city \in Range(cities_listbox)
               IN  SelectSeq(rows_inserted(comparison_results.rows), listed)
         /\ status_var' =
               IF display_comparison_raises(comparison_results) THEN status_var
               ELSE Status("Comparison complete for", "", Len(comparison_results.rows))
         /\ UNCHANGED <<weather_text, forecast_text, current_weather_data>>

\* display_comparison(comparison_results)
display_comparison(comparison_results) ==
    IF ~Truthy(comparison_results)
    THEN UNCHANGED uiVars                       \* showwarning, return
    ELSE /\ comparison_tree' = rows_inserted(comparison_results.rows)
         /\ status_var' =
               IF display_comparison_raises(comparison_results) THEN status_var
               ELSE Status("Comparison complete for", "", Len(comparison_results.rows))
         /\ UNCHANGED <<weather_text, forecast_text, current_weather_data>>

-----------------------------------------------------------------------------
(* Owner thread: process_queue *)

\* The after() timer fires: a pass starts
process_queue_start ==
    /\ poll = "pending"
    /\ poll' = "running"
    /\ pass_todo' = Len(queue)
    /\ UNCHANGED <<queue, threads, session, cities_listbox, uiVars, clicks,
                   enqueued, applied>>

\* The handler of a message raises, and process_queue catches queue.Empty only
handler_raises(m) ==
    m.type = "comparison" /\ Truthy(m.data) /\ display_comparison_raises(m.data)

\* One turn of `while True`: get_nowait returns a message, it is dispatched.
\* An exception of the handler leaves process_queue before root.after
process_queue_get ==
    /\ poll = "running"
    /\ queue # <<>>
    /\ LET got == get_nowait(queue)
           m == got.item
       IN  /\ queue' = got.rest
           /\ applied' = Append(applied, m.req)
           /\ CASE m.type = "current_weather" -> display_current_weather(m.data, m.city)
                [] m.type = "forecast" -> display_forecast(m.data, m.city)
                [] m.type = "comparison" -> display_comparison(m.data)
                [] m.type = "error" ->
                            /\ status_var' = Status("Error occurred", "", 0)
                            /\ UNCHANGED <<weather_text, forecast_text,
                                           comparison_tree, current_weather_data>>
           /\ poll' = IF handler_raises(m) THEN "stopped" ELSE "running"
    /\ pass_todo' = IF pass_todo > 0 THEN pass_todo - 1 ELSE 0
    /\ UNCHANGED <<threads, session, cities_listbox, clicks, enqueued>>

\* get_nowait raises queue.Empty: the pass ends with root.after(100, ...)
process_queue_reschedule ==
    /\ poll = "running"
    /\ queue = <<>>
    /\ poll' = "pending"
    /\ UNCHANGED <<queue, threads, session, cities_listbox, uiVars, histVars>>

-----------------------------------------------------------------------------

Next ==
    \/ \E text \in EntryTexts : get_current_weather(text) /\ UNCHANGED auxVars
    \/ \E city \in Cities : get_weather_from_browser(city) /\ UNCHANGED auxVars
    \/ \E text \in EntryTexts : get_weather_forecast(text) /\ UNCHANGED auxVars
    \/ compare_weather /\ UNCHANGED auxVars
    \/ \E t \in Workers : session_get(t) /\ UNCHANGED auxVars
    \/ \E t \in Workers : \E o \in Outcomes(WeatherKeys) :
            fetch_current_weather(t, o) /\ UNCHANGED auxVars
    \/ \E t \in Workers : \E o \in Outcomes(ForecastKeys) :
            fetch_forecast(t, o) /\ UNCHANGED auxVars
    \/ \E t \in Workers : \E o \in Outcomes(WeatherKeys) :
            fetch_comparison_data(t, o) /\ UNCHANGED auxVars
    \/ process_queue_start /\ UNCHANGED auxVars
    \/ process_queue_get /\ UNCHANGED auxVars
    \/ process_queue_reschedule /\ UNCHANGED auxVars

Spec == Init /\ [][Next]_vars

\* The Tk event loop runs every armed timer and every started pass goes on
FairSpec ==
    /\ Spec
    /\ WF_vars(process_queue_start /\ UNCHANGED auxVars)
    /\ WF_vars(process_queue_get /\ UNCHANGED auxVars)
    /\ WF_vars(process_queue_reschedule /\ UNCHANGED auxVars)

-----------------------------------------------------------------------------
(* Properties *)

Count(seq, x) == Cardinality({i \in 1..Len(seq) : seq[i] = x})

Done(t) == threads[t].pc = "done"

\* A message that reports a fetch that failed: None, an empty payload or an
\* empty comparison list
FailedFetch(m) == m.type \in {"current_weather", "forecast", "comparison"} /\ ~Truthy(m.data)

\* process_queue takes the head of the queue in this step
Takes == poll = "running" /\ queue # <<>> /\ applied' = Append(applied, Head(queue).req)

C2_OnePassRunningOrPending == poll \in {"pending", "running"}

\* C3: a pass that has ended has taken every message that was in the queue
\* when it started
C3_PassDrainsWhatItFound == poll # "running" => pass_todo = 0

\* C4: a transport failure of a current or forecast fetch reaches the queue
\* as a None result of the fetch's own kind, never as an exception; every
\* finished worker has put its message; and taking the message of a failed
\* fetch (None, empty payload, empty comparison) shows the error line and
\* leaves the poll pass running.
C4_TransportFailureIsNoneAndPollingGoesOn ==
    /\ [](\A i \in 1..Len(queue) :
            queue[i].cause = "RequestException"
                => queue[i].type \in {"current_weather", "forecast"}
                   /\ queue[i].data = None)
    /\ [](\A t \in Workers : Done(t) => Count(enqueued, t) >= 1)
    /\ [][Takes /\ FailedFetch(Head(queue))
            => /\ poll' = "running"
               /\ Head(queue).type = "current_weather"
                    => weather_text' = Text("error", Head(queue).city, "")
               /\ Head(queue).type = "forecast"
                    => forecast_text' = Text("error", Head(queue).city, "")]_vars

\* C4 witness: a failed forecast fetch was applied first, then a current
\* weather fetch that succeeded was applied and its report is displayed
C4_Witness_SuccessAfterFailure ==
    /\ Len(threads) = 2
    /\ threads[1].kind = "forecast" /\ threads[2].kind = "current"
    /\ applied = <<1, 2>>
    /\ forecast_text.line = "error"
    /\ weather_text.line = "report"
    /\ poll = "pending"

\* C5: every accepted fetch action started exactly one thread, and every
\* thread has put exactly one message once it has finished and none before.
C5_OneWorkerOneMessage ==
    /\ Len(threads) = clicks
    /\ \A t \in Workers : Count(enqueued, t) = IF Done(t) THEN 1 ELSE 0

\* C5 witness: one worker ended in an exception and one in a transport
\* failure; each has put its single message
C5_Witness_FailuresPutOneMessage ==
    /\ Len(queue) = 2
    /\ queue[1].type = "error"
    /\ queue[2].cause = "RequestException"
    /\ \A t \in Workers : Done(t)

\* C6: every message put on the queue is eventually taken by process_queue
C6_EveryResultEventuallyApplied ==
    \A t \in 1..MaxRequests : (Count(enqueued, t) > 0) ~> (Count(applied, t) > 0)

\* C7: a step in which a worker thread moves changes no UI-visible state
\* (weather text, forecast text, comparison table, status line, snapshot).
C7_WorkersLeaveUiAlone ==
    [][(\E t \in Workers : threads'[t] # threads[t]) => UNCHANGED uiVars]_vars

\* C7 witness: a worker has finished and put its result while the panel
\* still shows what the owner wrote when the fetch was started
C7_Witness_ResultQueuedPanelLoading ==
    /\ Len(threads) = 1 /\ Done(1) /\ threads[1].kind = "current"
    /\ Len(queue) = 1 /\ Truthy(queue[1].data)
    /\ weather_text = Loading

\* C8: every request in flight on the client was issued by a worker thread,
\* never by the owner thread.
C8_OwnerNeverOnNetwork ==
    \A r \in session : r.thread # MainThread /\ r.thread \in Workers

\* C8 witness: requests of two fetches are in flight while a poll pass runs
C8_Witness_CallsInFlightDuringPass ==
    /\ Cardinality(session) = 2
    /\ poll = "running"

\* C9: no two workers use the client's HTTP session at the same time
C9_WorkersShareNoSession == Cardinality({r.thread : r \in session}) <= 1

\* C10: a finished worker has always put its message, whatever was requested
\* after it (no cancellation); once all workers are finished and the queue is
\* empty every message has been applied; and applying a current-weather
\* message always overwrites the weather panel with that message's result,
\* so the panel shows the result that arrived last.
C10_NoCancellationLastArrivalShown ==
    /\ [](\A t \in Workers : Done(t) => Count(enqueued, t) = 1)
    /\ []((queue = <<>> /\ \A t \in Workers : Done(t))
            => \A t \in Workers : Count(applied, t) = 1)
    /\ [][Takes /\ Head(queue).type = "current_weather"
            => weather_text' =
                 IF Truthy(Head(queue).data)
                 THEN format_current_weather(Head(queue).data)
                 ELSE Text("error", Head(queue).city, "")]_vars

\* C10 witness: Paris was requested first and Tokyo second, Tokyo's result
\* arrived first, and the panel ends showing the older request's result
C10_Witness_StaleResultShown ==
    /\ Len(threads) = 2
    /\ threads[1] = [Thread("current", <<"Paris">>) EXCEPT !.pc = "done"]
    /\ threads[2] = [Thread("current", <<"Tokyo">>) EXCEPT !.pc = "done"]
    /\ applied = <<2, 1>>
    /\ queue = <<>>
    /\ weather_text = Text("report", "Paris", "")

\* C11: a comparison over N cities is one worker thread holding the whole
\* list; it calls the client for one city at a time, in list order: the call
\* for city i is the only request of that thread in flight, and when it ends,
\* whatever its outcome, the thread goes on to city i + 1, and ends only after
\* city N.
C11_OneWorkerSequentialInListOrder ==
    /\ [](\A t \in Workers : threads[t].kind = "comparison" =>
            LET mine == {r \in session : r.thread = t} IN
            /\ threads[t].i \in 1..Len(threads[t].cities)
            /\ mine = IF threads[t].pc = "in_call"
                      THEN {[thread |-> t, url |-> "/weather",
                             q |-> threads[t].cities[threads[t].i], cnt |-> 0]}
                      ELSE {})
    /\ [][/\ Len(threads') > Len(threads) /\ threads'[Len(threads')].kind = "comparison"
             => /\ Len(threads') = Len(threads) + 1
                /\ threads'[Len(threads')] = Thread("comparison", cities_listbox)
          /\ \A t \in Workers :
                threads[t].kind = "comparison" /\ threads'[t] # threads[t] =>
                    LET th == threads[t]
                        nx == threads'[t]
                    IN  /\ nx.cities = th.cities
                        /\ \/ th.pc = "ready" /\ nx.pc = "in_call" /\ nx.i = th.i
                           \/ /\ th.pc = "in_call" /\ th.i < Len(th.cities)
                              /\ nx.pc = "ready" /\ nx.i = th.i + 1
                           \/ /\ th.pc = "in_call" /\ th.i = Len(th.cities)
                              /\ nx.pc = "done"]_vars

\* C11 witness: the call for Paris, the first city, failed and the worker is
\* in its call for Tokyo
C11_Witness_SecondCallAfterFailure ==
    \E t \in Workers :
        /\ threads[t].kind = "comparison"
        /\ threads[t].cities = <<"Paris", "Tokyo">>
        /\ threads[t].i = 2
        /\ threads[t].pc = "in_call"
        /\ threads[t].results = <<>>

-----------------------------------------------------------------------------
(* One comparison fetch, with what the network answered on record *)

\* Cities the user can have put on the comparison list
CompareCities == {"Paris", "Tokyo", "Cairo"}

\* The comparison lists Compare Weather accepts: two or more names, each once
CompareLists ==
    {l \in UNION {[1..n -> CompareCities] : n \in 2..Cardinality(CompareCities)} :
        \A i, j \in 1..Len(l) : l[i] = l[j] => i = j}

\* Every JSON object over the keys read, the empty object {} included
EveryPayload(keys) == SUBSET Range(keys)

EveryOutcome(keys) ==
    {[res |-> "RequestException", keys |-> {}], [res |-> "Exception", keys |-> {}]}
        \cup {[res |-> "json", keys |-> ks] : ks \in EveryPayload(keys)}

CompareInit == (\E l \in CompareLists : Constructed(l)) /\ AuxInit

\* The first Compare Weather click
CompareClick == threads = <<>> /\ compare_weather /\ UNCHANGED auxVars

CompareCall == \E t \in Workers : session_get(t) /\ UNCHANGED auxVars

\* A call of the comparison worker ends; the answer is recorded
CompareAnswer ==
    \E t \in Workers : \E o \in EveryOutcome(WeatherKeys) :
        /\ fetch_comparison_data(t, o)
        /\ answers' = Append(answers, [city |-> threads[t].cities[threads[t].i],
                                       o |-> o])
        /\ UNCHANGED <<last_call, client_trace, cities_writes, widgets>>

ComparePoll ==
    \/ process_queue_start /\ UNCHANGED auxVars
    \/ process_queue_get /\ UNCHANGED auxVars
    \/ process_queue_reschedule /\ UNCHANGED auxVars

CompareNext == CompareClick \/ CompareCall \/ CompareAnswer \/ ComparePoll

CompareSpec == CompareInit /\ [][CompareNext]_vars

\* The cities, in call order, whose call returned a non-empty payload
RECURSIVE Answered(_)
Answered(ans) ==
    IF ans = <<>> THEN <<>>
    ELSE IF Head(ans).o.res = "json" /\ Head(ans).o.keys # {}
         THEN <<Head(ans).city>> \o Answered(Tail(ans))
         ELSE Answered(Tail(ans))

CitiesOf(rows) == [i \in 1..Len(rows) |-> rows[i].city]

IsPrefix(s, t) == Len(s) <= Len(t) /\ s = SubSeq(t, 1, Len(s))

\* C12: the list a comparison worker builds holds one row for each city
\* called so far whose call returned a non-empty payload, in call order, which
\* is list order; the list it puts holds these rows for the whole comparison
\* list, each with the payload of its city; a comparison worker puts no other
\* message (no error entry); and the table never shows a city outside that list.
C12_RowsAreTheAnsweredCities ==
    /\ \A t \in Workers : threads[t].kind = "comparison" /\ ~Done(t) =>
          /\ CitiesOf(threads[t].results) = Answered(answers)
          /\ [i \in 1..Len(answers) |-> answers[i].city]
                = SubSeq(threads[t].cities, 1, Len(answers))
    /\ \A k \in 1..Len(queue) :
          /\ queue[k].type = "comparison"
          /\ [i \in 1..Len(answers) |-> answers[i].city] = threads[queue[k].req].cities
          /\ CitiesOf(queue[k].data.rows) = Answered(answers)
          /\ \A r \in Range(queue[k].data.rows) :
                \E i \in 1..Len(answers) :
                    /\ answers[i].city = r.city
                    /\ r.data = Json(answers[i].o.keys, r.city)
    /\ IsPrefix(CitiesOf(comparison_tree), Answered(answers))

\* C12 witness: of Paris, Tokyo, Cairo the call for Paris failed in transport
\* and the one for Tokyo returned {}; the list put holds the row of Cairo only
C12_Witness_OnlyCairoAnswered ==
    /\ Len(answers) = 3
    /\ answers[1] = [city |-> "Paris", o |-> [res |-> "RequestException", keys |-> {}]]
    /\ answers[2] = [city |-> "Tokyo", o |-> [res |-> "json", keys |-> {}]]
    /\ Len(queue) = 1
    /\ CitiesOf(queue[1].data.rows) = <<"Cairo">>

-----------------------------------------------------------------------------
(* The comparison list under its three edit buttons *)

\* Cities the dialog can return to Add City
DialogCities == {"Paris", "Tokyo", "Cairo", "London", "Hamilton"}

ListInit == Constructed(<<>>) /\ AuxInit

Edit(op, arg) == [op |-> op, arg |-> arg, before |-> cities_listbox]

ListAdd ==
    \E selected_city \in DialogCities \cup {""} :
        /\ add_comparison_city(selected_city)
        /\ last_call' = Edit("add_comparison_city", selected_city)
        /\ UNCHANGED <<answers, client_trace, cities_writes, widgets>>

ListRemove ==
    \E sel \in 1..Len(cities_listbox) :
        /\ remove_comparison_city(sel)
        /\ last_call' = Edit("remove_comparison_city", cities_listbox[sel])
        /\ UNCHANGED <<answers, client_trace, cities_writes, widgets>>

ListClear ==
    /\ clear_comparison_cities
    /\ last_call' = Edit("clear_comparison_cities", "")
    /\ UNCHANGED <<answers, client_trace, cities_writes, widgets>>

ListNext == ListAdd \/ ListRemove \/ ListClear

ListSpec == ListInit /\ [][ListNext]_vars

\* C13: whatever sequence of Add City, Remove Selected and Clear All has run,
\* no name is on the comparison list twice; and after Add City with a name
\* that was on the list, the list is what it was before.
C13_ListHasNoNameTwice ==
    /\ \A i, j \in 1..Len(cities_listbox) :
          cities_listbox[i] = cities_listbox[j] => i = j
    /\ (last_call.op = "add_comparison_city" /\ last_call.arg \in Range(last_call.before))
          => cities_listbox = last_call.before

\* C13 witness: Add City has just returned Tokyo while the list held Paris,
\* Tokyo, Cairo
C13_Witness_AddOfListedName ==
    /\ last_call = [op |-> "add_comparison_city", arg |-> "Tokyo",
                    before |-> <<"Paris", "Tokyo", "Cairo">>]
    /\ cities_listbox = <<"Paris", "Tokyo", "Cairo">>

-----------------------------------------------------------------------------
(* WorldCitiesDatabase and find_city_location *)

\* all.extend(l) for every list l of ls, in order
RECURSIVE extend_all(_, _)
extend_all(all, ls) ==
    IF ls = <<>> THEN all ELSE extend_all(all \o Head(ls).items, Tail(ls))

\* The country lists in traversal order: continent by continent
RECURSIVE country_lists(_)
country_lists(continents) ==
    IF continents = <<>> THEN <<>>
    ELSE values(Head(continents)) \o country_lists(Tail(continents))

\* get_all_cities()
get_all_cities(db) == sorted(extend_all(<<>>, country_lists(values(db))))

\* Mutant of get_cities_by_continent: only the first country of the continent
get_cities_by_continent_first_country(db, continent) ==
    IF ~has_key(db, continent) THEN NewList(<<>>)
    ELSE sorted(extend_all(<<>>, SubSeq(values(getitem(db, continent)), 1, 1)))

\* get_cities_by_continent(continent)
get_cities_by_continent(db, continent) ==
    IF ~has_key(db, continent) THEN NewList(<<>>)
    ELSE sorted(extend_all(<<>>, values(getitem(db, continent))))

\* Mutant of get_cities_by_country: the list the catalog holds is returned
get_cities_by_country_stored_list(db, country) ==
    LET hits == {i \in 1..Len(db) : has_key(db[i].v, country)} IN
    IF hits = {} THEN NewList(<<>>)
    ELSE getitem(db[CHOOSE i \in hits : \A j \in hits : i <= j].v, country)

\* get_cities_by_country(country): the first continent that has the country
get_cities_by_country(db, country) ==
    LET hits == {i \in 1..Len(db) : has_key(db[i].v, country)} IN
    IF hits = {} THEN NewList(<<>>)
    ELSE sorted(getitem(db[CHOOSE i \in hits : \A j \in hits : i <= j].v, country).items)

\* Mutant of search_cities: the city name is compared as it is written
search_cities_case_sensitive(db, query) ==
    LET query_lower == lower(query)
        cities == extend_all(<<>>, country_lists(values(db)))
        matches(city) == contains(query_lower, chars(city))
    IN  sorted(SelectSeq(cities, matches))

\* search_cities(query); query is the sequence of characters typed
search_cities(db, query) ==
    LET query_lower == lower(query)
        cities == extend_all(<<>>, country_lists(values(db)))
        matches(city) == contains(query_lower, lower(chars(city)))
    IN  sorted(SelectSeq(cities, matches))

DefaultLimit == 50

popular ==
    <<"New York", "London", "Tokyo", "Paris", "Singapore", "Sydney", "Dubai",
      "Hong Kong", "Los Angeles", "Barcelona", "Amsterdam", "Seoul", "Berlin",
      "Rome", "Madrid", "Mumbai", "Bangkok", "Istanbul", "Vienna", "Prague",
      "Buenos Aires", "São Paulo", "Mexico City", "Cairo", "Moscow", "Delhi",
      "Shanghai", "Beijing", "Toronto", "Vancouver", "Montreal", "Chicago",
      "San Francisco", "Miami", "Las Vegas", "Orlando", "Boston", "Washington DC">>

\* Mutant of get_popular_cities: the slice stops one short
get_popular_cities_one_short(limit) == slice(popular, limit - 1)

\* get_popular_cities(limit)
get_popular_cities(limit) == slice(popular, limit)

\* The (continent, country, cities) triples in traversal order
RECURSIVE items_of(_)
items_of(db) ==
    IF db = <<>> THEN <<>>
    ELSE [j \in 1..Len(Head(db).v) |->
             [continent |-> Head(db).k, country |-> Head(db).v[j].k,
              cities |-> Head(db).v[j].v.items]]
         \o items_of(Tail(db))

\* Mutant of find_city_location: the loop goes on to the last match
find_city_location_last_match(db, city) ==
    LET its == items_of(db)
        hits == {n \in 1..Len(its) : city \in Range(its[n].cities)}
    IN  IF hits = {} THEN <<"Unknown", "Unknown">>
        ELSE LET n == CHOOSE i \in hits : \A j \in hits : j <= i
             IN  <<its[n].continent, its[n].country>>

\* find_city_location(city): the first match returns
find_city_location(db, city) ==
    LET its == items_of(db)
        hits == {n \in 1..Len(its) : city \in Range(its[n].cities)}
    IN  IF hits = {} THEN <<"Unknown", "Unknown">>
        ELSE LET n == CHOOSE i \in hits : \A j \in hits : i <= j
             IN  <<its[n].continent, its[n].country>>

-----------------------------------------------------------------------------
(* Calls of the directory, one at a time, and a caller that changes the  *)
(* list it was returned                                                   *)

MaxLimit == 51              \* largest limit passed to get_popular_cities

\* The names the catalog lists
CatalogNames(db) ==
    UNION {Range(items_of(db)[n].cities) : n \in 1..Len(items_of(db))}

ContinentInputs == Range([i \in 1..Len(Catalog) |-> Catalog[i].k]) \cup {"Antarctica"}

CountryInputs ==
    {items_of(Catalog)[n].country : n \in 1..Len(items_of(Catalog))} \cup {"Atlantis"}

NameInputs == CatalogNames(Catalog) \cup Range(popular) \cup {"Atlantis"}

\* Every piece of a catalog name, as written and in lower case, the empty
\* query, an upper-case query and one that matches nothing
Queries ==
    LET pieces == {SubSeq(chars(c), i, j) : <<c, i, j>> \in
                      {<<c, i, j>> \in CatalogNames(Catalog) \X (1..12) \X (0..11) :
                          i <= Len(chars(c)) + 1 /\ i - 1 <= j /\ j <= Len(chars(c))}}
    IN  pieces \cup {lower(q) : q \in pieces} \cup {<<"O", "N">>, <<"x", "y">>}

Limits == (-1)..MaxLimit

DirectoryInit == Constructed(<<>>) /\ AuxInit

\* A caller that holds no result calls op(arg) and holds what it returned
Returned(op, arg, ret) ==
    /\ last_call.op = "none"
    /\ last_call' = [op |-> op, arg |-> arg, ret |-> ret]
    /\ UNCHANGED <<guiVars, answers, client_trace, cities_writes, widgets>>

CallGetAll == Returned("get_all_cities", "", get_all_cities(cities_db))

CallByContinent ==
    \E continent \in ContinentInputs :
        Returned("get_cities_by_continent", continent,
                 get_cities_by_continent(cities_db, continent))

CallByCountry ==
    \E country \in CountryInputs :
        Returned("get_cities_by_country", country,
                 get_cities_by_country(cities_db, country))

CallSearch ==
    \E query \in Queries :
        Returned("search_cities", query, search_cities(cities_db, query))

CallPopular ==
    \E limit \in Limits :
        Returned("get_popular_cities", limit, get_popular_cities(limit))

CallLocate ==
    \E city \in NameInputs :
        Returned("find_city_location", city, find_city_location(cities_db, city))

ListCalls == {"get_all_cities", "get_cities_by_continent", "get_cities_by_country",
              "search_cities", "get_popular_cities"}

\* The caller appends to the list it was returned, or empties it
CallerModifies ==
    /\ last_call.op \in ListCalls
    /\ \E items \in {Append(last_call.ret.items, "Atlantis"), <<>>} :
          /\ last_call' = [op |-> "modified", arg |-> last_call.op,
                           ret |-> PyList(last_call.ret.id, items)]
          /\ cities_writes' =
                IF last_call.ret.id = "new" THEN cities_writes
                ELSE [id \in DOMAIN cities_writes \cup {last_call.ret.id} |->
                         IF id = last_call.ret.id THEN items ELSE cities_writes[id]]
    /\ UNCHANGED <<guiVars, answers, client_trace, widgets>>

\* The caller lets go of what it held
CallerReturns ==
    /\ last_call.op # "none"
    /\ last_call' = [op |-> "none"]
    /\ UNCHANGED <<guiVars, answers, client_trace, cities_writes, widgets>>

DirectoryNext ==
    \/ CallGetAll
    \/ CallByContinent
    \/ CallByCountry
    \/ CallSearch
    \/ CallPopular
    \/ CallLocate
    \/ CallerModifies
    \/ CallerReturns

DirectorySpec == DirectoryInit /\ [][DirectoryNext]_vars

\* C14: get_all_cities() lists every name of the catalog, and
\* get_cities_by_continent(k) lists every name that find_city_location puts
\* in continent k.
C14_EveryCityListedAndUnderItsContinent ==
    /\ last_call.op = "get_all_cities" =>
          \A c \in CatalogNames(cities_db) : c \in Range(last_call.ret.items)
    /\ last_call.op = "get_cities_by_continent" =>
          \A c \in CatalogNames(cities_db) :
              find_city_location(cities_db, c)[1] = last_call.arg
                  => c \in Range(last_call.ret.items)

\* C14 witness: the cities of North America were listed; León, of its second
\* country, and London, also a city of Europe, are among them
C14_Witness_NorthAmericaListed ==
    /\ last_call.op = "get_cities_by_continent"
    /\ last_call.arg = "North America"
    /\ {"León", "London"} \subseteq Range(last_call.ret.items)
    /\ find_city_location(cities_db, "London") = <<"North America", "Canada">>

\* How many entries of the catalog hold the name n
EntryCount(db, n) ==
    Cardinality({<<k, m>> \in (1..Len(items_of(db))) \X (1..Len(chars(n)) + 3) :
                    /\ m <= Len(items_of(db)[k].cities)
                    /\ items_of(db)[k].cities[m] = n})

\* Some piece of the name c reads as q when case is ignored
HasPiece(c, q) ==
    \E i \in 1..Len(chars(c)) + 1 : \E j \in (i - 1)..Len(chars(c)) :
        lower(SubSeq(chars(c), i, j)) = lower(q)

C16_PopularIsAPrefixOfTheCuratedList ==
    (last_call.op = "get_popular_cities" /\ last_call.arg >= 0) =>
        LET got == last_call.ret.items
            n == IF last_call.arg < Len(popular) THEN last_call.arg ELSE Len(popular)
        IN  /\ Len(got) = n
            /\ \A i \in 1..n : got[i] = popular[i]
            /\ last_call.arg >= Len(popular) => got = popular

\* C16 witness: the default limit returned the whole curated list, which is
\* shorter than the limit
C16_Witness_DefaultLimitReturnsAll ==
    /\ last_call.op = "get_popular_cities"
    /\ last_call.arg = DefaultLimit
    /\ last_call.ret.items = popular
    /\ Len(popular) < DefaultLimit

\* C17: find_city_location(name) returns the continent and country of the
\* first country list, in traversal order (continents in insertion order,
\* then the countries of the continent in insertion order), that holds the
\* name; it returns ("Unknown", "Unknown") exactly when no list holds it.
C17_LocateReturnsTheFirstMatch ==
    last_call.op = "find_city_location" =>
        LET name == last_call.arg
            db == cities_db
            Holds(i, j) == name \in Range(db[i].v[j].v.items)
            At == {<<i, j>> \in (1..Len(db)) \X (1..Len(db)) :
                      j <= Len(db[i].v) /\ Holds(i, j)}
        IN  /\ (last_call.ret = <<"Unknown", "Unknown">>) <=> (At = {})
            /\ At # {} =>
                  \E p \in At :
                      /\ last_call.ret = <<db[p[1]].k, db[p[1]].v[p[2]].k>>
                      /\ \A r \in At : p[1] < r[1] \/ (p[1] = r[1] /\ p[2] <= r[2])

\* C17 witness: Hamilton, listed under Canada and under New Zealand, was
\* located in Canada
C17_Witness_HamiltonInCanada ==
    /\ last_call.op = "find_city_location"
    /\ last_call.arg = "Hamilton"
    /\ last_call.ret = <<"North America", "Canada">>

\* C18: the catalog is what it was at construction, whatever directory calls
\* were made and whatever a caller did to the list it was returned; and the
\* list a directory call returns is none of the lists the catalog holds.
C18_CatalogNeverWritten ==
    /\ DOMAIN cities_writes = {}
    /\ cities_db = Catalog
    /\ last_call.op \in ListCalls => last_call.ret.id = "new"

\* C18 witness: a caller emptied the list get_cities_by_country returned
\* for a country of the catalog
C18_Witness_ReturnedListEmptied ==
    /\ last_call.op = "modified"
    /\ last_call.arg = "get_cities_by_country"
    /\ last_call.ret.items = <<>>
    /\ getitem(getitem(cities_db, "Europe"), "France").items = <<"Paris", "Lyon">>

-----------------------------------------------------------------------------
(* The weather clients called one call at a time: WeatherAPI of the GUI and *)
(* IntegratedWeatherDashboard of the web page                               *)

MaxCalls == 2               \* calls of a client in one run
MaxDays == 3                \* largest day count passed explicitly

ClientFns == {"WeatherAPI.get_weather_data", "WeatherAPI.get_forecast_data",
              "IntegratedWeatherDashboard.get_current_weather",
              "IntegratedWeatherDashboard.get_forecast_data"}

ForecastFns == {"WeatherAPI.get_forecast_data",
                "IntegratedWeatherDashboard.get_forecast_data"}

\* The day counts a call can carry: only WeatherAPI.get_forecast_data has the
\* parameter, the default when it is left out
DaysOf(fn) ==
    IF fn = "WeatherAPI.get_forecast_data" THEN (1..MaxDays) \cup {DefaultDays} ELSE {0}

\* get_current_weather of the web page: {} for a transport failure
IntegratedWeatherDashboard_get_current_weather(o, city) ==
    CASE o.res = "json" -> [raised |-> FALSE, value |-> Json(o.keys, city)]
      [] o.res = "RequestException" -> [raised |-> FALSE, value |-> Json({}, "")]
      [] OTHER -> [raised |-> TRUE, value |-> Str(o.res)]

\* get_forecast_data of the web page: same transport discipline
IntegratedWeatherDashboard_get_forecast_data(o, city) ==
    CASE o.res = "json" -> [raised |-> FALSE, value |-> Json(o.keys, city)]
      [] o.res = "RequestException" -> [raised |-> FALSE, value |-> Json({}, "")]
      [] OTHER -> [raised |-> TRUE, value |-> Str(o.res)]

CallEvent(fn, city, days) == [ev |-> "call", fn |-> fn, q |-> city, days |-> days]

\* self.session.get(url, params=params): the web page's forecast sends no cnt
GetEvent(fn, city, days) ==
    [ev |-> "GET",
     url |-> IF fn \in ForecastFns THEN "/forecast" ELSE "/weather",
     q |-> city,
     cnt |-> IF fn = "WeatherAPI.get_forecast_data" THEN forecast_cnt(days) ELSE 0]

ReturnEvent(r) == [ev |-> "return", raised |-> r.raised, value |-> r.value]

Calls(trace) == Cardinality({i \in 1..Len(trace) : trace[i].ev = "call"})

ClientInit == Constructed(<<>>) /\ AuxInit

\* A caller enters a client function
client_call ==
    /\ last_call.op = "none"
    /\ Calls(client_trace) < MaxCalls
    /\ \E fn \in ClientFns : \E city \in Cities : \E days \in DaysOf(fn) :
          /\ last_call' = [op |-> fn, arg |-> city, days |-> days, pc |-> "called"]
          /\ client_trace' = Append(client_trace, CallEvent(fn, city, days))
    /\ UNCHANGED <<guiVars, answers, cities_writes, widgets>>

\* The function builds url and params and issues the GET
client_get ==
    /\ last_call.op \in ClientFns
    /\ last_call.pc = "called"
    /\ last_call' = [last_call EXCEPT !.pc = "sent"]
    /\ client_trace' = Append(client_trace,
                              GetEvent(last_call.op, last_call.arg, last_call.days))
    /\ UNCHANGED <<guiVars, answers, cities_writes, widgets>>

\* What the function returns, or raises, when its GET ends with outcome o
client_result(fn, o, city) ==
    CASE fn = "WeatherAPI.get_weather_data" -> get_weather_data(o, city)
      [] fn = "WeatherAPI.get_forecast_data" -> get_forecast_data(o, city)
      [] fn = "IntegratedWeatherDashboard.get_current_weather" ->
            IntegratedWeatherDashboard_get_current_weather(o, city)
      [] fn = "IntegratedWeatherDashboard.get_forecast_data" ->
            IntegratedWeatherDashboard_get_forecast_data(o, city)

\* Mutant of client_return: after a transport failure the request is issued
\* again
client_return_retries(o) ==
    /\ last_call.op \in ClientFns
    /\ last_call.pc = "sent"
    /\ IF o.res = "RequestException"
       THEN /\ last_call' = [last_call EXCEPT !.pc = "called"]
            /\ UNCHANGED client_trace
       ELSE /\ last_call' = [op |-> "none"]
            /\ client_trace' =
                  Append(client_trace,
                         ReturnEvent(client_result(last_call.op, o, last_call.arg)))
    /\ UNCHANGED <<guiVars, answers, cities_writes, widgets>>

\* The GET ends with outcome o and the function returns
client_return(o) ==
    /\ last_call.op \in ClientFns
    /\ last_call.pc = "sent"
    /\ last_call' = [op |-> "none"]
    /\ client_trace' =
          Append(client_trace, ReturnEvent(client_result(last_call.op, o, last_call.arg)))
    /\ UNCHANGED <<guiVars, answers, cities_writes, widgets>>

ClientNext ==
    \/ client_call
    \/ client_get
    \/ \E o \in Outcomes(IF last_call.op \in ForecastFns THEN ForecastKeys ELSE WeatherKeys) :
          client_return(o)

ClientSpec == ClientInit /\ [][ClientNext]_vars

\* C19: the GET of WeatherAPI.get_forecast_data(city, days) carries
\* cnt = days * 8, which is 40 when days is left at its default of 5.
C19_ForecastCountIsEightPerDay ==
    \A i \in 1..(Len(client_trace) - 1) :
        (client_trace[i].ev = "call" /\ client_trace[i].fn = "WeatherAPI.get_forecast_data")
            => /\ client_trace[i + 1].ev = "GET"
               /\ client_trace[i + 1].url = "/forecast"
               /\ client_trace[i + 1].cnt = client_trace[i].days * 8
               /\ client_trace[i].days = 5 => client_trace[i + 1].cnt = 40

\* C19 witness: a forecast was requested with the default day count
C19_Witness_DefaultForecastRequested ==
    /\ Len(client_trace) >= 2
    /\ client_trace[1] = CallEvent("WeatherAPI.get_forecast_data", "Paris", DefaultDays)
    /\ client_trace[2].ev = "GET"
    /\ client_trace[2].cnt = 40

\* C20: the trace of a client is call, GET, return, call, GET, return, ...:
\* every call is followed by exactly one GET, for the city and endpoint of
\* that call, then by its return, whatever the GET's outcome and whatever
\* was called before.
C20_OneGetPerCall ==
    \A i \in 1..Len(client_trace) :
        LET e == client_trace[i] IN
        /\ e.ev = (CASE i % 3 = 1 -> "call" [] i % 3 = 2 -> "GET" [] OTHER -> "return")
        /\ e.ev = "GET" =>
              /\ e.q = client_trace[i - 1].q
              /\ e.url = IF client_trace[i - 1].fn \in ForecastFns
                         THEN "/forecast" ELSE "/weather"

\* C20 witness: the call for Paris failed in transport and returned None; the
\* next call, for Paris again, issued the same GET again
C20_Witness_SameCityRequestedAgain ==
    /\ Len(client_trace) >= 5
    /\ client_trace[1] = CallEvent("WeatherAPI.get_weather_data", "Paris", 0)
    /\ client_trace[3] = ReturnEvent([raised |-> FALSE, value |-> None])
    /\ client_trace[4] = client_trace[1]
    /\ client_trace[5] = client_trace[2]

-----------------------------------------------------------------------------
(* The formatters on whole payloads.  A JSON object is a function from its  *)
(* keys, a JSON array a sequence, a text a string.                          *)

\* One character in upper case, in lower case
upper_char(c) ==
    IF \E i \in 1..Len(Lower) : Lower[i] = c
    THEN Upper[CHOOSE i \in 1..Len(Lower) : Lower[i] = c] ELSE c

lower_char(c) ==
    IF \E i \in 1..Len(Upper) : Upper[i] = c
    THEN Lower[CHOOSE i \in 1..Len(Upper) : Upper[i] = c] ELSE c

is_letter(c) == \E i \in 1..Len(Upper) : Upper[i] = c \/ Lower[i] = c

\* str.title(): a letter that follows no letter in upper case, every other
\* letter in lower case
RECURSIVE title_upto(_, _)
title_upto(s, n) ==
    IF n = 0 THEN ""
    ELSE LET c == SubSeq(s, n, n)
             after_letter == n > 1 /\ is_letter(SubSeq(s, n - 1, n - 1))
         IN  title_upto(s, n - 1)
                \o (IF after_letter THEN lower_char(c) ELSE upper_char(c))

title(s) == title_upto(s, Len(s))

\* A JSON number: an integer, or a decimal with one digit after the point
Integer(n) == [num |-> "int", whole |-> n, tenths |-> 0]

Float(whole, tenths) == [num |-> "float", whole |-> whole, tenths |-> tenths]

\* Mutant of str_num: the number without its decimal
str_num_truncated(x) == ToString(x.whole)

\* str(x) of a number, as an f-string field renders it
str_num(x) ==
    IF x.num = "int" THEN ToString(x.whole)
    ELSE ToString(x.whole) \o "." \o ToString(x.tenths)

\* Two digits, zero-padded (%H, %M, %S)
pad2(n) == IF n < 10 THEN "0" \o ToString(n) ELSE ToString(n)

SecondsPerDay == 86400
SecondsPerHour == 3600
SecondsPerMinute == 60

\* datetime.fromtimestamp(ts) in a zone tz seconds east of UTC: the day
\* number and the time of day
local_date(ts, tz) == (ts + tz) \div SecondsPerDay

strftime_HMS(ts, tz) ==
    LET s == (ts + tz) % SecondsPerDay IN
    pad2(s \div SecondsPerHour) \o ":" \o pad2((s % SecondsPerHour) \div SecondsPerMinute)
        \o ":" \o pad2(s % SecondsPerMinute)

\* visibility / 1000 rendered: a float, at least one digit after the point
\* and no trailing zeros
str_km(v) ==
    LET m == v % 1000
        frac == IF m = 0 THEN "0"
                ELSE IF m % 100 = 0 THEN ToString(m \div 100)
                ELSE IF m % 10 = 0 THEN pad2(m \div 10)
                ELSE (IF m < 100 THEN "0" ELSE "") \o pad2(m \div 10) \o ToString(m % 10)
    IN  ToString(v \div 1000) \o "." \o frac

\* d minus the keys in absent
Drop(d, absent) == [k \in (DOMAIN d) \ absent |-> d[k]]

\* The value at the end of a path of subscripts, or the exception the first
\* failing subscript raises; "[0]" subscripts a list
RECURSIVE subscript(_, _)
subscript(d, path) ==
    IF path = <<>> THEN [err |-> "", key |-> "", value |-> d]
    ELSE IF Head(path) = "[0]"
         THEN IF Len(d) = 0 THEN [err |-> "IndexError", key |-> "", value |-> 0]
              ELSE subscript(d[1], Tail(path))
         ELSE IF Head(path) \notin DOMAIN d
              THEN [err |-> "KeyError", key |-> Head(path), value |-> 0]
              ELSE subscript(d[Head(path)], Tail(path))

\* The first subscript chain, in the order the code evaluates them, that
\* raises; err = "" when none does
RECURSIVE first_failure(_, _)
first_failure(d, paths) ==
    IF paths = <<>> THEN [err |-> "", key |-> "", value |-> 0]
    ELSE IF subscript(d, Head(paths)).err # "" THEN subscript(d, Head(paths))
    ELSE first_failure(d, Tail(paths))

\* The subscripts of format_current_weather, in order
CurrentLookups ==
    <<<<"name">>, <<"sys", "country">>, <<"main", "temp">>, <<"main", "feels_like">>,
      <<"main", "humidity">>, <<"main", "pressure">>,
      <<"weather", "[0]", "description">>, <<"wind", "speed">>, <<"wind">>,
      <<"sys", "sunrise">>, <<"sys", "sunset">>>>

\* What a formatter call does: returns a text, or raises
Returns(text) == [raised |-> "", text |-> text]

Raises(exc) == [raised |-> exc, text |-> ""]

\* The lines of the report of format_current_weather, box borders left out
current_weather_lines(data, now, tz) ==
    LET wind_deg == IF "deg" \in DOMAIN data["wind"] THEN str_num(data["wind"]["deg"])
                    ELSE "0"
        visibility == IF "visibility" \in DOMAIN data THEN str_km(data["visibility"])
                      ELSE "N/A"
    IN  <<"CURRENT WEATHER REPORT",
          "Location: " \o data["name"] \o ", " \o data["sys"]["country"],
          "Last Updated: " \o now,
          "TEMPERATURE INFORMATION:",
          "Current Temperature: " \o str_num(data["main"]["temp"]) \o "°C",
          "Feels Like: " \o str_num(data["main"]["feels_like"]) \o "°C",
          "Condition: " \o title(data["weather"][1]["description"]),
          "ATMOSPHERIC CONDITIONS:",
          "Humidity: " \o str_num(data["main"]["humidity"]) \o "%",
          "Pressure: " \o str_num(data["main"]["pressure"]) \o " hPa",
          "Visibility: " \o visibility \o " km",
          "WIND INFORMATION:",
          "Speed: " \o str_num(data["wind"]["speed"]) \o " m/s",
          "Direction: " \o wind_deg \o "°",
          "SUN INFORMATION:",
          "Sunrise: " \o strftime_HMS(data["sys"]["sunrise"], tz),
          "Sunset: " \o strftime_HMS(data["sys"]["sunset"], tz)>>

RECURSIVE join_lines(_)
join_lines(lines) ==
    IF lines = <<>> THEN ""
    ELSE IF Len(lines) = 1 THEN Head(lines)
    ELSE Head(lines) \o "\n" \o join_lines(Tail(lines))

\* format_current_weather(data) on a whole payload: KeyError is caught and
\* named in the text returned, any other exception escapes
format_current_weather_payload(data, now, tz) ==
    LET f == first_failure(data, CurrentLookups) IN
    CASE f.err = "" -> Returns(join_lines(current_weather_lines(data, now, tz)))
      [] f.err = "KeyError" ->
            Returns("Error formatting weather data: Missing key '" \o f.key \o "'")
      [] OTHER -> Raises(f.err)

\* The payload the API answers for Tokyo
TokyoWeather ==
    [name |-> "Tokyo",
     sys |-> [country |-> "JP", sunrise |-> 1700000000, sunset |-> 1700038000],
     main |-> [temp |-> Float(18, 3), feels_like |-> Float(17, 9), humidity |-> Integer(55),
               pressure |-> Integer(1012)],
     weather |-> <<[description |-> "clear sky"]>>,
     wind |-> [speed |-> Float(3, 6), deg |-> Integer(200)],
     visibility |-> 10000]

\* A number in tenths, to compare and add
tenths_of(x) == x.whole * 10 + x.tenths

\* f"{x:.1f}" of a number given in tenths
format_1f(t) == ToString(t \div 10) \o "." \o ToString(t % 10)

\* f"{total / n:.0f}": the quotient rounded to the nearest integer, a tie to
\* the even one
format_0f(total, n) ==
    LET q == total \div n
        r == total % n
    IN  ToString(IF 2 * r < n THEN q
                 ELSE IF 2 * r > n THEN q + 1
                 ELSE IF q % 2 = 0 THEN q ELSE q + 1)

\* strftime('%H:%M')
strftime_HM(ts, tz) ==
    LET s == (ts + tz) % SecondsPerDay IN
    pad2(s \div SecondsPerHour) \o ":" \o pad2((s % SecondsPerHour) \div SecondsPerMinute)

\* date.strftime('%A, %B %d, %Y'), abridged to the number of the day
strftime_date(date) == "Day " \o ToString(date)

\* The first of a sequence of (object, subscript chain) that raises
RECURSIVE first_raise(_)
first_raise(checks) ==
    IF checks = <<>> THEN [err |-> "", key |-> "", value |-> 0]
    ELSE IF subscript(Head(checks).d, Head(checks).p).err # ""
         THEN subscript(Head(checks).d, Head(checks).p)
    ELSE first_raise(Tail(checks))

Each(items, path) == [i \in 1..Len(items) |-> [d |-> items[i], p |-> path]]

\* The dates of the samples, each once, in order of first appearance: the
\* keys of daily_forecasts
RECURSIVE date_keys(_, _)
date_keys(items, tz) ==
    IF items = <<>> THEN <<>>
    ELSE LET before == date_keys(SubSeq(items, 1, Len(items) - 1), tz)
             date == local_date(items[Len(items)]["dt"], tz)
         IN  IF date \in Range(before) THEN before ELSE Append(before, date)

\* daily_forecasts[date]: the samples of that date, in payload order
forecasts_of(items, date, tz) ==
    LET on_date(item) == local_date(item["dt"], tz) = date IN SelectSeq(items, on_date)

MaxDaysShown == 5
MaxHourlyShown == 4

first_n(seq, n) == SubSeq(seq, 1, IF Len(seq) < n THEN Len(seq) ELSE n)

\* Mutant of most_common: the condition of the first sample of the day
most_common_first_sample(conditions) == {conditions[1]}

\* max(set(conditions), key=conditions.count): the first condition of the
\* set with the largest count.  The order of a set of str changes from run
\* to run, so any condition with the largest count can be the one returned.
most_common(conditions) ==
    {c \in Range(conditions) :
        \A other \in Range(conditions) : Count(conditions, other) <= Count(conditions, c)}

\* The subscripts one day of the summary loop evaluates, in order
day_lookups(forecasts) ==
    Each(forecasts, <<"main", "temp">>)
        \o Each(forecasts, <<"weather", "[0]", "description">>)
        \o Each(forecasts, <<"main", "humidity">>)
        \o Each(forecasts, <<"main", "pressure">>)

RECURSIVE days_lookups(_, _, _)
days_lookups(items, dates, tz) ==
    IF dates = <<>> THEN <<>>
    ELSE day_lookups(forecasts_of(items, Head(dates), tz))
            \o days_lookups(items, Tail(dates), tz)

\* The subscripts of format_forecast, in order
forecast_failure(data, tz) ==
    LET head == first_raise(<<[d |-> data, p |-> <<"city", "name">>],
                              [d |-> data, p |-> <<"city", "country">>],
                              [d |-> data, p |-> <<"list">>]>>)
    IN  IF head.err # "" THEN head
        ELSE LET stamps == first_raise(Each(data["list"], <<"dt">>)) IN
             IF stamps.err # "" THEN stamps
             ELSE first_raise(days_lookups(data["list"],
                                           first_n(date_keys(data["list"], tz), MaxDaysShown),
                                           tz))

Min(S) == CHOOSE x \in S : \A y \in S : x <= y
Max(S) == CHOOSE x \in S : \A y \in S : y <= x

RECURSIVE Sum(_)
Sum(seq) == IF seq = <<>> THEN 0 ELSE Head(seq) + Sum(Tail(seq))

\* The summary of one day, its headline condition being `condition`
day_summary(date, forecasts, condition, tz) ==
    LET temps == [i \in 1..Len(forecasts) |-> tenths_of(forecasts[i]["main"]["temp"])]
        humidity == [i \in 1..Len(forecasts) |-> forecasts[i]["main"]["humidity"].whole]
        pressure == [i \in 1..Len(forecasts) |-> forecasts[i]["main"]["pressure"].whole]
        shown == first_n(forecasts, MaxHourlyShown)
    IN  [date |-> date,
         condition |-> title(condition),
         lines |->
            <<strftime_date(date),
              "Temperature Range: " \o format_1f(Min(Range(temps))) \o "°C - "
                  \o format_1f(Max(Range(temps))) \o "°C",
              "Condition: " \o title(condition),
              "Average Humidity: " \o format_0f(Sum(humidity), Len(forecasts)) \o "%",
              "Average Pressure: " \o format_0f(Sum(pressure), Len(forecasts)) \o " hPa",
              "Hourly Details:">>
            \o [i \in 1..Len(shown) |->
                   "  " \o strftime_HM(shown[i]["dt"], tz) \o ": "
                       \o str_num(shown[i]["main"]["temp"]) \o "°C, "
                       \o title(shown[i]["weather"][1]["description"])]]

\* The summaries format_forecast can produce for the dates given: one
\* sequence for every way the headline conditions can fall
RECURSIVE day_summaries(_, _, _)
day_summaries(items, dates, tz) ==
    IF dates = <<>> THEN {<<>>}
    ELSE LET forecasts == forecasts_of(items, Head(dates), tz)
             conditions == [i \in 1..Len(forecasts) |->
                               forecasts[i]["weather"][1]["description"]]
         IN  {<<day_summary(Head(dates), forecasts, c, tz)>> \o rest :
                 c \in most_common(conditions),
                 rest \in day_summaries(items, Tail(dates), tz)}

RECURSIVE flatten_lines(_)
flatten_lines(days) ==
    IF days = <<>> THEN <<>> ELSE Head(days).lines \o flatten_lines(Tail(days))

\* format_forecast(data) on a whole payload: what it can return or raise
format_forecast_payload(data, now, tz) ==
    LET f == forecast_failure(data, tz) IN
    CASE f.err = "" ->
            {[raised |-> "", days |-> days,
              text |-> join_lines(<<"5-DAY WEATHER FORECAST",
                                    "Location: " \o data["city"]["name"] \o ", "
                                        \o data["city"]["country"],
                                    "Generated: " \o now>> \o flatten_lines(days))] :
                days \in day_summaries(data["list"],
                                       first_n(date_keys(data["list"], tz), MaxDaysShown),
                                       tz)}
      [] f.err = "KeyError" ->
            {[raised |-> "", days |-> <<>>,
              text |-> "Error formatting forecast data: Missing key '" \o f.key \o "'"]}
      [] OTHER -> {[raised |-> f.err, days |-> <<>>, text |-> ""]}

Sample(dt, condition) ==
    [dt |-> dt,
     main |-> [temp |-> Float(18, 3), humidity |-> Integer(55), pressure |-> Integer(1012)],
     weather |-> <<[description |-> condition]>>]

-----------------------------------------------------------------------------
(* FormatSpec: the first result the poll applies to a fresh dashboard, with
   whole payloads *)

MaxSamples == 3

\* TokyoWeather without the fields of `absent` ("[0]": the list of
\* conditions is empty)
WeatherWithout(absent) ==
    Drop([name |-> TokyoWeather["name"],
          sys |-> Drop(TokyoWeather["sys"], absent),
          main |-> Drop(TokyoWeather["main"], absent),
          weather |-> IF "[0]" \in absent THEN <<>>
                      ELSE <<Drop(TokyoWeather["weather"][1], absent)>>,
          wind |-> Drop(TokyoWeather["wind"], absent),
          visibility |-> TokyoWeather["visibility"]], absent)

CurrentFields ==
    {"name", "sys", "country", "sunrise", "sunset", "main", "temp", "feels_like",
     "humidity", "pressure", "weather", "[0]", "description", "wind", "speed", "deg",
     "visibility"}

\* A forecast payload of the samples given, without the fields of `absent`
ForecastWithout(samples, absent) ==
    Drop([city |-> Drop([name |-> "Tokyo", country |-> "JP"], absent),
          list |-> [i \in 1..Len(samples) |->
                      Drop([dt |-> samples[i]["dt"],
                            main |-> Drop(samples[i]["main"], absent),
                            weather |-> IF "[0]" \in absent THEN <<>>
                                        ELSE <<Drop(samples[i]["weather"][1], absent)>>],
                           absent)]], absent)

ForecastFields ==
    {"city", "name", "country", "list", "dt", "main", "temp", "humidity", "pressure",
     "weather", "[0]", "description"}

\* Sample times: late evening UTC, three hours later (the next day in UTC,
\* the same day nine hours east), and a day after the first
SampleTimes == {1700000000, 1700010800, 1700086400}

Conditions == {"clear sky", "light rain"}

Samples == {Sample(dt, c) : dt \in SampleTimes, c \in Conditions}

SampleLists == UNION {[1..n -> Samples] : n \in 1..MaxSamples}

\* The offsets of local time from UTC the dashboard may run under
Timezones == {0, 32400}

\* datetime.now().strftime('%Y-%m-%d %H:%M:%S') at the time of the call
Now == "2024-01-01 12:00:00"

FormatInit == Constructed(<<>>) /\ AuxInit

\* display_current_weather(weather_data, city) run by the poll on a whole
\* payload.  An exception format_current_weather does not catch leaves
\* display_current_weather and process_queue before root.after.
display_current_weather_payload(weather_data, absent, city, tz) ==
    LET ret == format_current_weather_payload(weather_data, Now, tz) IN
    /\ last_call.op = "none"
    /\ poll = "pending"
    /\ last_call' = [op |-> "display_current_weather", arg |-> weather_data,
                     absent |-> absent, tz |-> tz, ret |-> ret]
    /\ IF weather_data = <<>>
       THEN /\ weather_text' = "Error: Could not fetch weather data for " \o city \o "\n"
            /\ status_var' = Status("Error fetching weather data", "", 0)
            /\ UNCHANGED <<current_weather_data, poll>>
       ELSE /\ current_weather_data' = weather_data
            /\ weather_text' = IF ret.raised = "" THEN ret.text ELSE ""
            /\ status_var' = IF ret.raised = "" THEN Status("Weather data loaded for", city, 0)
                             ELSE status_var
            /\ poll' = IF ret.raised = "" THEN "pending" ELSE "stopped"
    /\ UNCHANGED <<queue, threads, session, cities_listbox, forecast_text, comparison_tree,
                   histVars, answers, client_trace, cities_writes, widgets>>

\* display_forecast(forecast_data, city) likewise
display_forecast_payload(forecast_data, absent, city, tz) ==
    \E ret \in format_forecast_payload(forecast_data, Now, tz) :
        /\ last_call.op = "none"
        /\ poll = "pending"
        /\ last_call' = [op |-> "display_forecast", arg |-> forecast_data,
                         absent |-> absent, tz |-> tz, ret |-> ret]
        /\ IF forecast_data = <<>>
           THEN /\ forecast_text' = "Error: Could not fetch forecast data for " \o city \o "\n"
                /\ status_var' = Status("Error fetching forecast data", "", 0)
                /\ UNCHANGED poll
           ELSE /\ forecast_text' = IF ret.raised = "" THEN ret.text ELSE ""
                /\ status_var' = IF ret.raised = ""
                                 THEN Status("Forecast data loaded for", city, 0)
                                 ELSE status_var
                /\ poll' = IF ret.raised = "" THEN "pending" ELSE "stopped"
        /\ UNCHANGED <<queue, threads, session, cities_listbox, weather_text,
                       comparison_tree, current_weather_data, histVars, answers,
                       client_trace, cities_writes, widgets>>

ShowCurrentWeather ==
    \E absent \in {{}} \cup {{f} : f \in CurrentFields}, tz \in Timezones :
        display_current_weather_payload(WeatherWithout(absent), absent, "Tokyo", tz)

ShowForecast ==
    \E samples \in SampleLists, tz \in Timezones :
        display_forecast_payload(ForecastWithout(samples, {}), {}, "Tokyo", tz)

ShowBrokenForecast ==
    \E f \in ForecastFields, tz \in Timezones :
        display_forecast_payload(
            ForecastWithout(<<Sample(1700000000, "clear sky"),
                              Sample(1700086400, "light rain")>>, {f}),
            {f}, "Tokyo", tz)

FormatNext ==
    \/ ShowCurrentWeather
    \/ ShowForecast
    \/ ShowBrokenForecast

FormatSpec == FormatInit /\ [][FormatNext]_vars

\* The fields the formatters subscript: every field but the two read with
\* a default
ExpectedFields == (CurrentFields \cup ForecastFields) \ {"deg", "visibility"}

\* C21: a current-weather or forecast payload in which an expected field is
\* absent makes the formatter return the inline error text naming that
\* field, without raising, and the panel shows that text.
C21_AbsentFieldGivesInlineError ==
    (/\ last_call.op \in {"display_current_weather", "display_forecast"}
     /\ last_call.absent \cap ExpectedFields # {})
        => /\ last_call.ret.raised = ""
           /\ \E k \in last_call.absent :
                 /\ contains("Error formatting", last_call.ret.text)
                 /\ contains("Missing key '" \o k \o "'", last_call.ret.text)
           /\ IF last_call.op = "display_current_weather"
              THEN weather_text = last_call.ret.text
              ELSE forecast_text = last_call.ret.text

\* The part of C21 that holds: an absent key (not a list entry) gives the
\* inline error text naming it
C21_AbsentKeyGivesInlineError ==
    (/\ last_call.op \in {"display_current_weather", "display_forecast"}
     /\ last_call.absent \cap (ExpectedFields \ {"[0]"}) # {})
        => /\ last_call.ret.raised = ""
           /\ \E k \in last_call.absent :
                 contains("Missing key '" \o k \o "'", last_call.ret.text)

\* C23: for the Tokyo payload with temp 18.3, humidity 55, pressure 1012
\* and condition "clear sky", the text format_current_weather returns, which
\* the panel then shows, contains "18.3", "55%", "1012 hPa" and "Clear Sky".
C23_TokyoReportShowsReadings ==
    (last_call.op = "display_current_weather" /\ last_call.arg = TokyoWeather)
        => /\ last_call.ret.raised = ""
           /\ \A piece \in {"18.3", "55%", "1012 hPa", "Clear Sky"} :
                 contains(piece, last_call.ret.text)
           /\ weather_text = last_call.ret.text

C23_Witness_TokyoReportShown ==
    /\ last_call.op = "display_current_weather"
    /\ last_call.arg = TokyoWeather
    /\ contains("Current Temperature: 18.3°C", weather_text)
    /\ contains("Condition: Clear Sky", weather_text)

\* C24: format_forecast groups the samples by the calendar date of each
\* sample's own timestamp, and the headline condition of a day is one whose
\* number of occurrences among that day's samples is the largest.
C24_GroupedByOwnDateHeadlineMostFrequent ==
    (last_call.op = "display_forecast" /\ last_call.absent = {})
        => LET items == last_call.arg["list"]
               days == last_call.ret.days
               on(date) == {i \in 1..Len(items) :
                               local_date(items[i]["dt"], last_call.tz) = date}
               occurrences(date, c) ==
                   Cardinality({i \in on(date) :
                                   title(items[i]["weather"][1]["description"]) = c})
               shown(date) == IF Cardinality(on(date)) < MaxHourlyShown
                              THEN Cardinality(on(date)) ELSE MaxHourlyShown
           IN  /\ last_call.ret.raised = ""
               /\ {days[k].date : k \in 1..Len(days)}
                     = {local_date(items[i]["dt"], last_call.tz) : i \in 1..Len(items)}
               /\ \A k, l \in 1..Len(days) : days[k].date = days[l].date => k = l
               /\ \A k \in 1..Len(days) :
                     /\ occurrences(days[k].date, days[k].condition) >= 1
                     /\ \A i \in on(days[k].date) :
                           occurrences(days[k].date,
                                       title(items[i]["weather"][1]["description"]))
                               <= occurrences(days[k].date, days[k].condition)
                     /\ Len(days[k].lines) = 6 + shown(days[k].date)
                     /\ days[k].lines[3] = "Condition: " \o days[k].condition
                     /\ contains(days[k].lines[3], forecast_text)

\* Three samples on one local day (two UTC days), the first with the
\* condition that is in the minority
C24_Witness_MajorityNotFirstSample ==
    /\ last_call.op = "display_forecast"
    /\ last_call.absent = {}
    /\ last_call.tz = 32400
    /\ Len(last_call.arg["list"]) = 3
    /\ last_call.arg["list"][1] = Sample(1700000000, "light rain")
    /\ last_call.arg["list"][2] = Sample(1700010800, "clear sky")
    /\ last_call.arg["list"][3] = Sample(1700000000, "clear sky")
    /\ Len(last_call.ret.days) = 1
    /\ last_call.ret.days[1].condition = "Clear Sky"
    /\ contains("Condition: Clear Sky", forecast_text)

-----------------------------------------------------------------------------
(* StartupSpec: main() constructs the dashboard and runs it *)

\* os.getenv('OPENWEATHER_API_KEY'): "" stands for a key that is not set
\* (None) or set to the empty string, both false in `if not self.api_key`
ApiKeys == {"", "0123456789abcdef"}

\* The steps of __init__ up to the test of the key
StepsToKey == <<"Tk", "WorldCitiesDatabase", "getenv">>

StepsOfAbort == <<"showerror", "destroy">>

StepsOfSetup == <<"WeatherAPI", "setup_styles", "create_widgets", "Queue", "process_queue">>

\* The process before WeatherDashboardGUI(): nothing shown, no timer armed
StartupInit ==
    /\ queue = <<>>
    /\ threads = <<>>
    /\ session = {}
    /\ poll = "none"
    /\ cities_listbox = <<>>
    /\ weather_text = Text("empty", "", "")
    /\ forecast_text = Text("empty", "", "")
    /\ comparison_tree = <<>>
    /\ status_var = Status("Ready", "", 0)
    /\ current_weather_data = Json({}, "")
    /\ clicks = 0
    /\ enqueued = <<>>
    /\ applied = <<>>
    /\ pass_todo = 0
    /\ AuxInit

\* Mutant of WeatherDashboardGUI_init: no return after root.destroy()
WeatherDashboardGUI_init_goes_on(api_key) ==
    /\ last_call.op = "none"
    /\ poll = "none"
    /\ last_call' = [op |-> "__init__", api_key |-> api_key,
                     steps |-> StepsToKey
                                 \o (IF api_key = "" THEN StepsOfAbort ELSE <<>>)
                                 \o StepsOfSetup]
    /\ poll' = "pending"
    /\ UNCHANGED <<queue, threads, session, cities_listbox, uiVars, histVars, answers,
                   client_trace, cities_writes, widgets>>

\* WeatherDashboardGUI.__init__ with the key the environment holds.  Without
\* a key it shows the error, destroys the root window and returns; otherwise
\* it creates the client, the widgets and the queue and makes the first
\* process_queue call, which finds the queue empty and arms the timer.
WeatherDashboardGUI_init(api_key) ==
    /\ last_call.op = "none"
    /\ poll = "none"
    /\ IF api_key = ""
       THEN /\ last_call' = [op |-> "__init__", api_key |-> api_key,
                             steps |-> StepsToKey \o StepsOfAbort]
            /\ poll' = "destroyed"
       ELSE /\ last_call' = [op |-> "__init__", api_key |-> api_key,
                             steps |-> StepsToKey \o StepsOfSetup]
            /\ poll' = "pending"
    /\ UNCHANGED <<queue, threads, session, cities_listbox, uiVars, histVars, answers,
                   client_trace, cities_writes, widgets>>

\* app.run() from main: root.mainloop().  On a destroyed root there is no
\* main window left: mainloop comes back at once, or raises TclError, which
\* main catches; either way main ends.
run ==
    /\ last_call.op = "__init__"
    /\ \/ /\ poll = "destroyed"
          /\ \E how \in {"returned", "TclError"} :
                last_call' = [op |-> "exit", api_key |-> last_call.api_key,
                              steps |-> last_call.steps \o <<"mainloop", how>>]
       \/ /\ poll # "destroyed"
          /\ last_call' = [op |-> "mainloop", api_key |-> last_call.api_key,
                           steps |-> Append(last_call.steps, "mainloop")]
    /\ UNCHANGED <<guiVars, answers, client_trace, cities_writes, widgets>>

\* The event loop is running callbacks
InMainloop == last_call.op = "mainloop"

StartupNext ==
    \/ \E api_key \in ApiKeys : WeatherDashboardGUI_init(api_key)
    \/ run
    \/ InMainloop /\ \E text \in EntryTexts : get_current_weather(text) /\ UNCHANGED auxVars
    \/ InMainloop /\ \E t \in Workers : session_get(t) /\ UNCHANGED auxVars
    \/ InMainloop /\ \E t \in Workers : \E o \in Outcomes(WeatherKeys) :
            fetch_current_weather(t, o) /\ UNCHANGED auxVars
    \/ InMainloop /\ process_queue_start /\ UNCHANGED auxVars
    \/ InMainloop /\ process_queue_get /\ UNCHANGED auxVars
    \/ InMainloop /\ process_queue_reschedule /\ UNCHANGED auxVars

StartupSpec == StartupInit /\ [][StartupNext]_vars

\* C22: without an API key, __init__ shows the error and stops before the
\* weather client, the queue and the poll loop are created; from then on no
\* worker is started, no request is issued, no timer is armed, and run()
\* does not enter a working event loop.
C22_NoKeyAbortsBeforeClientQueueAndPoll ==
    (last_call.op # "none" /\ last_call.api_key = "")
        => /\ "showerror" \in Range(last_call.steps)
           /\ Range(last_call.steps) \cap Range(StepsOfSetup) = {}
           /\ ~InMainloop
           /\ poll = "destroyed"
           /\ threads = <<>>
           /\ session = {}
           /\ queue = <<>>
           /\ clicks = 0
           /\ enqueued = <<>>

C22_Witness_RunAfterAbortedStartup ==
    /\ last_call.op = "exit"
    /\ last_call.api_key = ""
    /\ poll = "destroyed"
    /\ threads = <<>>

-----------------------------------------------------------------------------
(* BrowserSpec: the Cities Browser tab and the modal city selection dialog *)

\* The content of a widget: what it was set to, or what construction left
content(w, name, constructed) == IF name \in DOMAIN w THEN w[name] ELSE constructed

widget(name, constructed) == content(widgets, name, constructed)

\* The widgets after the assignments of `changes`
with_widgets(changes) ==
    [n \in DOMAIN widgets \cup DOMAIN changes |->
        IF n \in DOMAIN changes THEN changes[n] ELSE widgets[n]]

\* str.strip() on the characters typed
RECURSIVE lstrip(_)
lstrip(cs) == IF cs # <<>> /\ Head(cs) = " " THEN lstrip(Tail(cs)) ELSE cs

RECURSIVE rstrip(_)
rstrip(cs) ==
    IF cs # <<>> /\ cs[Len(cs)] = " " THEN rstrip(SubSeq(cs, 1, Len(cs) - 1)) ELSE cs

strip_chars(cs) == rstrip(lstrip(cs))

\* What the user can have typed in a search entry
SearchTexts ==
    {<<>>, <<" ">>, <<"o">>, <<"o", " ">>, <<"o", "n">>, <<" ", "L", "O">>, <<"x", "y">>}

\* The values of the filter combobox
FilterValues == {"All Cities", "Popular Cities"} \cup {Catalog[i].k : i \in 1..Len(Catalog)}

\* populate_browser_tree(cities): one row (city, continent, country) a city
browser_rows(cities) ==
    [i \in 1..Len(cities) |-> <<cities[i]>> \o find_city_location(cities_db, cities[i])]

\* The cities refresh_cities_browser shows under a filter value
filtered_cities(filter_value) ==
    IF filter_value = "All Cities" THEN get_all_cities(cities_db).items
    ELSE IF filter_value = "Popular Cities" THEN get_popular_cities(DefaultLimit).items
    ELSE IF has_key(cities_db, filter_value)
         THEN get_cities_by_continent(cities_db, filter_value).items
    ELSE <<>>

filter_var == widget("filter_var", "All Cities")

browser_search_var == widget("browser_search_var", <<>>)

browser_tree == widget("browser_tree", browser_rows(filtered_cities("All Cities")))

\* A CitySelectionDialog is open (it grabs the input of the application)
dialog_open == "tree" \in DOMAIN widgets

BrowserInit == Constructed(<<>>) /\ AuxInit

Handled(op, query, called) ==
    /\ last_call' = [op |-> op, query |-> query, called |-> called]
    /\ UNCHANGED <<guiVars, answers, client_trace, cities_writes>>

\* The user picks a value in the filter combobox: on_filter_change
on_filter_change(filter_value) ==
    /\ ~dialog_open
    /\ widgets' = with_widgets([filter_var |-> filter_value,
                                browser_tree |-> browser_rows(filtered_cities(filter_value))])
    /\ Handled("on_filter_change", <<>>, "refresh_cities_browser")

\* Mutant of on_browser_search: one character is enough to search
on_browser_search_from_one_character(text) ==
    LET query == strip_chars(text) IN
    /\ ~dialog_open
    /\ IF Len(query) >= 1
       THEN /\ widgets' = with_widgets(
                    [browser_search_var |-> text,
                     browser_tree |-> browser_rows(search_cities(cities_db, query).items)])
            /\ Handled("on_browser_search", query, "search_cities")
       ELSE /\ widgets' = with_widgets(
                    [browser_search_var |-> text,
                     browser_tree |-> browser_rows(filtered_cities(filter_var))])
            /\ Handled("on_browser_search", query, "refresh_cities_browser")

\* A key released in the browser's search entry, which now holds `text`:
\* on_browser_search
on_browser_search(text) ==
    LET query == strip_chars(text) IN
    /\ ~dialog_open
    /\ IF Len(query) >= 2
       THEN /\ widgets' = with_widgets(
                    [browser_search_var |-> text,
                     browser_tree |-> browser_rows(search_cities(cities_db, query).items)])
            /\ Handled("on_browser_search", query, "search_cities")
       ELSE IF Len(query) = 0
       THEN /\ widgets' = with_widgets(
                    [browser_search_var |-> text,
                     browser_tree |-> browser_rows(filtered_cities(filter_var))])
            /\ Handled("on_browser_search", query, "refresh_cities_browser")
       ELSE /\ widgets' = with_widgets([browser_search_var |-> text])
            /\ Handled("on_browser_search", query, "none")

\* CitySelectionDialog(...).show(): the dialog opens on the popular cities
CitySelectionDialog_show ==
    /\ ~dialog_open
    /\ widgets' = with_widgets([search_var |-> <<>>,
                                tree |-> get_popular_cities(DefaultLimit).items])
    /\ Handled("show_popular_cities", <<>>, "get_popular_cities")

\* A key released in the dialog's search entry, which now holds `text`:
\* on_search
on_search(text) ==
    LET query == strip_chars(text) IN
    /\ dialog_open
    /\ IF Len(query) >= 2
       THEN /\ widgets' = with_widgets([search_var |-> text,
                                        tree |-> search_cities(cities_db, query).items])
            /\ Handled("on_search", query, "search_cities")
       ELSE IF Len(query) = 0
       THEN /\ widgets' = with_widgets([search_var |-> text,
                                        tree |-> get_popular_cities(DefaultLimit).items])
            /\ Handled("on_search", query, "get_popular_cities")
       ELSE /\ widgets' = with_widgets([search_var |-> text])
            /\ Handled("on_search", query, "none")

\* Cancel (or a selection): the dialog and its widgets are destroyed
on_cancel ==
    /\ dialog_open
    /\ widgets' = [n \in DOMAIN widgets \ {"search_var", "tree"} |-> widgets[n]]
    /\ Handled("on_cancel", <<>>, "none")

BrowserNext ==
    \/ \E filter_value \in FilterValues : on_filter_change(filter_value)
    \/ \E text \in SearchTexts : on_browser_search(text)
    \/ CitySelectionDialog_show
    \/ \E text \in SearchTexts : on_search(text)
    \/ on_cancel

BrowserSpec == BrowserInit /\ [][BrowserNext]_vars

\* C25: on_search and on_browser_search call search_cities only when the
\* stripped content of the entry has at least 2 characters, and then show
\* what it returned; with no character left they show the default view (the
\* popular cities, resp. the list of the current filter); with exactly one
\* character the displayed list stays as it was.
C25_SearchGatedAtTwoCharacters ==
    [][/\ last_call'.op = "on_browser_search" =>
            LET query == strip_chars(widgets'["browser_search_var"]) IN
            /\ last_call'.called = "search_cities" <=> Len(query) >= 2
            /\ Len(query) >= 2 =>
                  widgets'["browser_tree"]
                      = browser_rows(search_cities(cities_db, query).items)
            /\ Len(query) = 0 =>
                  widgets'["browser_tree"] = browser_rows(filtered_cities(filter_var))
            /\ Len(query) = 1 =>
                  /\ last_call'.called = "none"
                  /\ content(widgets', "browser_tree", browser_tree) = browser_tree
                  /\ "browser_tree" \in DOMAIN widgets' <=> "browser_tree" \in DOMAIN widgets
       /\ last_call'.op = "on_search" =>
            LET query == strip_chars(widgets'["search_var"]) IN
            /\ last_call'.called = "search_cities" <=> Len(query) >= 2
            /\ Len(query) >= 2 =>
                  widgets'["tree"] = search_cities(cities_db, query).items
            /\ Len(query) = 0 =>
                  widgets'["tree"] = get_popular_cities(DefaultLimit).items
            /\ Len(query) = 1 =>
                  /\ last_call'.called = "none"
                  /\ widgets'["tree"] = widgets["tree"]
      ]_vars

\* One character typed in the browser after a search: the results stay
C25_Witness_OneCharacterKeepsResults ==
    /\ last_call.op = "on_browser_search"
    /\ last_call.called = "none"
    /\ browser_search_var = <<"o", " ">>
    /\ browser_tree = browser_rows(search_cities(cities_db, <<"o", "n">>).items)
    /\ Len(browser_tree) > 0

\* C28: every row the browser shows under a continent filter k is labelled
\* with continent k and with a country of k whose list holds the city: for
\* every city c of get_cities_by_continent(k), find_city_location(c) is
\* (k, a country of k that lists c).
C28_RowsUnderContinentFilterCarryThatContinent ==
    (/\ last_call.op \in {"on_filter_change", "on_browser_search"}
     /\ last_call.called = "refresh_cities_browser"
     /\ has_key(cities_db, filter_var))
        => \A i \in 1..Len(browser_tree) :
              /\ browser_tree[i][2] = filter_var
              /\ has_key(getitem(cities_db, filter_var), browser_tree[i][3])
              /\ browser_tree[i][1]
                    \in Range(getitem(getitem(cities_db, filter_var),
                                      browser_tree[i][3]).items)

-----------------------------------------------------------------------------
(* InFlightSpec: the comparison list is edited while a comparison worker
   is in flight *)

\* The first Compare Weather click that starts a worker; the list it read
\* is recorded
InFlightClick ==
    /\ threads = <<>>
    /\ Len(cities_listbox) >= 2
    /\ compare_weather
    /\ last_call' = [op |-> "compare_weather", arg |-> cities_listbox]
    /\ UNCHANGED <<answers, client_trace, cities_writes, widgets>>

InFlightAdd == \E city \in CompareCities : add_comparison_city(city) /\ UNCHANGED auxVars

InFlightRemove ==
    \E sel \in 1..Cardinality(CompareCities) : remove_comparison_city(sel) /\ UNCHANGED auxVars

InFlightClear == clear_comparison_cities /\ UNCHANGED auxVars

InFlightNext ==
    \/ InFlightClick
    \/ InFlightAdd
    \/ InFlightRemove
    \/ InFlightClear
    \/ CompareCall
    \/ CompareAnswer
    \/ ComparePoll

InFlightSpec == CompareInit /\ [][InFlightNext]_vars

\* C29: the comparison result is computed from the list as it was at the
\* click: the worker calls the cities of that list in order whatever Add,
\* Remove Selected and Clear All do meanwhile, the message it puts holds the
\* answered cities of that list, and the message is applied: the table then
\* holds their rows, whether or not they are still on the list.
C29_ComparisonUsesListAtClick ==
    last_call.op = "compare_weather" =>
        /\ \A t \in Workers : threads[t].cities = last_call.arg
        /\ [i \in 1..Len(answers) |-> answers[i].city]
              = SubSeq(last_call.arg, 1, Len(answers))
        /\ \A k \in 1..Len(queue) :
              /\ queue[k].type = "comparison"
              /\ Len(answers) = Len(last_call.arg)
              /\ CitiesOf(queue[k].data.rows) = Answered(answers)
        /\ IsPrefix(CitiesOf(comparison_tree), Answered(answers))
        /\ status_var.msg = "Comparison complete for" =>
              /\ status_var.n = Len(Answered(answers))
              /\ comparison_tree = <<>> \/ CitiesOf(comparison_tree) = Answered(answers)

\* Clear All while the worker was in flight: the list is empty and the
\* table shows the rows of the list as it was at the click
C29_Witness_RowsAfterClearAll ==
    /\ last_call.op = "compare_weather"
    /\ cities_listbox = <<>>
    /\ CitiesOf(comparison_tree) = last_call.arg
    /\ Len(comparison_tree) >= 2

-----------------------------------------------------------------------------
(* ClickSpec: the three fetch buttons, every click recorded *)

\* The comparison lists of zero, one and two cities
ClickLists == {<<>>, <<"Paris">>, <<"Paris", "Tokyo">>}

ClickInit == (\E l \in ClickLists : Constructed(l)) /\ AuxInit

\* The callback `op` ran with the entry holding `text`
Clicked(op, text) ==
    /\ last_call' = [op |-> op, arg |-> text]
    /\ UNCHANGED <<answers, client_trace, cities_writes, widgets>>

\* A click is explored when it is refused or when no worker was started yet
ClickGetWeather ==
    \E text \in EntryTexts :
        /\ strip(text) = "" \/ threads = <<>>
        /\ get_current_weather(text)
        /\ Clicked("get_current_weather", text)

ClickGetForecast ==
    \E text \in EntryTexts :
        /\ strip(text) = "" \/ threads = <<>>
        /\ get_weather_forecast(text)
        /\ Clicked("get_weather_forecast", text)

ClickCompare ==
    /\ Len(cities_listbox) < 2 \/ threads = <<>>
    /\ compare_weather
    /\ Clicked("compare_weather", "")

ClickNext ==
    \/ ClickGetWeather
    \/ ClickGetForecast
    \/ ClickCompare
    \/ \E t \in Workers : session_get(t) /\ UNCHANGED auxVars
    \/ \E t \in Workers : \E o \in Outcomes(WeatherKeys) :
            fetch_current_weather(t, o) /\ UNCHANGED auxVars
    \/ \E t \in Workers : \E o \in Outcomes(ForecastKeys) :
            fetch_forecast(t, o) /\ UNCHANGED auxVars
    \/ \E t \in Workers : \E o \in Outcomes(WeatherKeys) :
            fetch_comparison_data(t, o) /\ UNCHANGED auxVars
    \/ process_queue_start /\ UNCHANGED auxVars
    \/ process_queue_get /\ UNCHANGED auxVars
    \/ process_queue_reschedule /\ UNCHANGED auxVars

ClickSpec == ClickInit /\ [][ClickNext]_vars

\* C27: Get Weather and Get Forecast with an empty or whitespace-only city,
\* and Compare Weather with fewer than 2 cities on the list, start no
\* worker, put nothing on the queue and change nothing that is displayed.
C27_RefusedClickChangesNothing ==
    [][(/\ last_call' # last_call
        /\ \/ /\ last_call'.op \in {"get_current_weather", "get_weather_forecast"}
              /\ strip(last_call'.arg) = ""
           \/ /\ last_call'.op = "compare_weather"
              /\ Len(cities_listbox) < 2)
          => /\ threads' = threads
             /\ queue' = queue
             /\ session' = session
             /\ enqueued' = enqueued
             /\ clicks' = clicks
             /\ cities_listbox' = cities_listbox
             /\ weather_text' = weather_text
             /\ forecast_text' = forecast_text
             /\ comparison_tree' = comparison_tree
             /\ status_var' = status_var
             /\ current_weather_data' = current_weather_data
      ]_vars

\* Get Forecast with a blank entry while a forecast report is shown
C27_Witness_BlankForecastClickAfterReport ==
    /\ last_call = [op |-> "get_weather_forecast", arg |-> " "]
    /\ forecast_text.line = "report"
    /\ threads # <<>>

-----------------------------------------------------------------------------
(* SnapshotSpec: the Current Weather tab: Get Weather, Clear, the workers
   and the poll *)

SnapshotInit == Constructed(<<>>) /\ AuxInit

SnapshotNext ==
    \/ \E text \in EntryTexts : get_current_weather(text) /\ UNCHANGED auxVars
    \/ clear_current_weather /\ UNCHANGED auxVars
    \/ \E t \in Workers : session_get(t) /\ UNCHANGED auxVars
    \/ \E t \in Workers : \E o \in Outcomes(WeatherKeys) :
            fetch_current_weather(t, o) /\ UNCHANGED auxVars
    \/ process_queue_start /\ UNCHANGED auxVars
    \/ process_queue_get /\ UNCHANGED auxVars
    \/ process_queue_reschedule /\ UNCHANGED auxVars

SnapshotSpec == SnapshotInit /\ [][SnapshotNext]_vars

-----------------------------------------------------------------------------
(* WebSpec: the web page's main() saves one dashboard *)

WebCities == {"Paris", "New York"}

\* The comparison cities typed at the prompt
MultiCities == {<<>>, <<"Tokyo">>, <<"Tokyo", "Cairo">>}

\* What a GET of the current weather can end with: a transport failure, or
\* a JSON object (complete, without the list of conditions, or with an
\* empty list of conditions)
WebWeatherOutcomes(city) ==
    {[res |-> "RequestException"],
     [res |-> "json", data |-> [name |-> city, main |-> [temp |-> Float(18, 3)],
                                weather |-> <<[main |-> "Clear",
                                               description |-> "clear sky"]>>]],
     [res |-> "json", data |-> [name |-> city, main |-> [temp |-> Float(18, 3)]]],
     [res |-> "json", data |-> [name |-> city, weather |-> <<>>]]}

WebSample ==
    [dt_txt |-> "2023-11-14 21:00:00",
     main |-> [temp |-> Float(18, 3), feels_like |-> Float(17, 9),
               humidity |-> Integer(55), pressure |-> Integer(1012)],
     weather |-> <<[main |-> "Clear", description |-> "clear sky"]>>]

\* What a GET of the forecast can end with: a transport failure, or a JSON
\* object (with samples, without the key 'list', with an empty list, or with
\* a sample that lacks 'main')
WebForecastOutcomes(city) ==
    {[res |-> "RequestException"],
     [res |-> "json", data |-> [city |-> [name |-> city], list |-> <<WebSample, WebSample>>]],
     [res |-> "json", data |-> [city |-> [name |-> city]]],
     [res |-> "json", data |-> [city |-> [name |-> city], list |-> <<>>]],
     [res |-> "json", data |-> [city |-> [name |-> city],
                                list |-> <<Drop(WebSample, {"main"})>>]]}

\* get_current_weather / get_forecast_data of the web page: response.json(),
\* or {} when the request failed
web_fetch(o) == IF o.res = "json" THEN o.data ELSE <<>>

\* `not data` for a dict
empty_dict(data) == DOMAIN data = {}

\* process_current_weather(data): every read has a default, but [0] of an
\* empty list of conditions raises
process_current_weather(data) ==
    IF empty_dict(data) THEN Returns(<<>>)
    ELSE IF "weather" \in DOMAIN data /\ data["weather"] = <<>> THEN Raises("IndexError")
    ELSE Returns([city |-> IF "name" \in DOMAIN data THEN data["name"] ELSE "Unknown"])

\* process_forecast_data(data): the rows of the DataFrame, none when the
\* payload is empty or has no 'list'; a sample without a key read by
\* subscript raises KeyError
process_forecast_data(data) ==
    IF empty_dict(data) \/ "list" \notin DOMAIN data THEN Returns(<<>>)
    ELSE LET f == first_raise(Each(data["list"], <<"dt_txt">>)
                                \o Each(data["list"], <<"main", "temp">>)
                                \o Each(data["list"], <<"main", "feels_like">>)
                                \o Each(data["list"], <<"main", "humidity">>)
                                \o Each(data["list"], <<"main", "pressure">>)
                                \o Each(data["list"], <<"weather", "[0]", "main">>)
                                \o Each(data["list"], <<"weather", "[0]", "description">>))
         IN  IF f.err # "" THEN Raises(f.err)
             ELSE Returns([i \in 1..Len(data["list"]) |->
                              [datetime |-> data["list"][i]["dt_txt"],
                               temperature |-> data["list"][i]["main"]["temp"]]])

UnableDocument == "<h1>Unable to fetch weather data</h1>"

\* str.replace(' ', '_')
RECURSIVE replace_spaces(_)
replace_spaces(s) ==
    IF Len(s) = 0 THEN ""
    ELSE (IF SubSeq(s, 1, 1) = " " THEN "_" ELSE SubSeq(s, 1, 1))
            \o replace_spaces(SubSeq(s, 2, Len(s)))

\* The file name save_dashboard makes up; the time stamp is that of the run
dashboard_filename(city) ==
    "weather_dashboard_" \o replace_spaces(city) \o "_20240101_120000.html"

WebInit == Constructed(<<>>) /\ AuxInit

WebStep(locals, gets) ==
    /\ last_call' = locals
    /\ client_trace' = client_trace \o gets
    /\ UNCHANGED <<guiVars, answers, cities_writes, widgets>>

\* main() calls dashboard.save_dashboard(main_city, multi_cities), which
\* calls create_integrated_dashboard
save_dashboard ==
    /\ last_call.op = "none"
    /\ \E city \in WebCities, multi_cities \in MultiCities :
          WebStep([op |-> "save_dashboard", pc |-> "current", city |-> city,
                   multi_cities |-> multi_cities, current_data |-> <<>>,
                   forecast_data |-> <<>>, i |-> 1, html |-> "", written |-> "",
                   returned |-> "", raised |-> ""], <<>>)

Running(pc) == last_call.op = "save_dashboard" /\ last_call.pc = pc

\* current_data = self.get_current_weather(city);
\* current_weather = self.process_current_weather(current_data)
dashboard_current_weather ==
    /\ Running("current")
    /\ \E o \in WebWeatherOutcomes(last_call.city) :
          LET current_data == web_fetch(o)
              current_weather == process_current_weather(current_data)
          IN  WebStep([last_call EXCEPT
                          !.current_data = current_data,
                          !.raised = current_weather.raised,
                          !.pc = IF current_weather.raised # "" THEN "raised"
                                 ELSE "forecast"],
                      <<GetEvent("IntegratedWeatherDashboard.get_current_weather",
                                 last_call.city, 0)>>)

\* forecast_data = self.get_forecast_data(city);
\* df = self.process_forecast_data(forecast_data);
\* if df.empty: return "<h1>Unable to fetch weather data</h1>"
dashboard_forecast ==
    /\ Running("forecast")
    /\ \E o \in WebForecastOutcomes(last_call.city) :
          LET forecast_data == web_fetch(o)
              df == process_forecast_data(forecast_data)
          IN  WebStep([last_call EXCEPT
                          !.forecast_data = forecast_data,
                          !.raised = df.raised,
                          !.html = IF df.raised = "" /\ df.text = <<>>
                                   THEN UnableDocument ELSE "",
                          !.pc = IF df.raised # "" THEN "raised"
                                 ELSE IF df.text = <<>> THEN "write"
                                 ELSE "charts"],
                      <<GetEvent("IntegratedWeatherDashboard.get_forecast_data",
                                 last_call.city, 0)>>)

\* create_multi_city_chart: one get_current_weather for the next comparison
\* city
dashboard_multi_city ==
    /\ Running("charts")
    /\ last_call.i <= Len(last_call.multi_cities)
    /\ \E o \in WebWeatherOutcomes(last_call.multi_cities[last_call.i]) :
          LET processed_data == process_current_weather(web_fetch(o)) IN
          WebStep([last_call EXCEPT
                      !.i = @ + 1,
                      !.raised = processed_data.raised,
                      !.pc = IF processed_data.raised # "" THEN "raised" ELSE "charts"],
                  <<GetEvent("IntegratedWeatherDashboard.get_current_weather",
                             last_call.multi_cities[last_call.i], 0)>>)

\* The charts are drawn and generate_html_dashboard returns the page
dashboard_html ==
    /\ Running("charts")
    /\ last_call.i > Len(last_call.multi_cities)
    /\ WebStep([last_call EXCEPT !.html = "<!DOCTYPE html> " \o last_call.city,
                                 !.pc = "write"], <<>>)

\* Mutant of save_dashboard_write: the failure document is not saved
save_dashboard_write_skips_failure ==
    /\ Running("write")
    /\ WebStep([last_call EXCEPT
                   !.written = IF last_call.html = UnableDocument THEN "" ELSE last_call.html,
                   !.returned = IF last_call.html = UnableDocument THEN ""
                                ELSE dashboard_filename(last_call.city),
                   !.pc = "done"], <<>>)

\* save_dashboard writes what create_integrated_dashboard returned and
\* returns the file name
save_dashboard_write ==
    /\ Running("write")
    /\ WebStep([last_call EXCEPT !.written = last_call.html,
                                 !.returned = dashboard_filename(last_call.city),
                                 !.pc = "done"], <<>>)

\* main() is over (an exception was caught and printed): the next run
web_main_returns ==
    /\ last_call.op = "save_dashboard"
    /\ last_call.pc \in {"done", "raised"}
    /\ last_call' = [op |-> "none"]
    /\ client_trace' = <<>>
    /\ UNCHANGED <<guiVars, answers, cities_writes, widgets>>

WebNext ==
    \/ save_dashboard
    \/ dashboard_current_weather
    \/ dashboard_forecast
    \/ dashboard_multi_city
    \/ dashboard_html
    \/ save_dashboard_write
    \/ web_main_returns

WebSpec == WebInit /\ [][WebNext]_vars

\* The forecast request of the run has returned
ForecastFetched == last_call.op = "save_dashboard" /\ last_call.pc \in {"charts", "write", "done"}

\* The requests issued for other cities than the main city
ComparisonGets == {i \in 1..Len(client_trace) : client_trace[i].q # last_call.city}

\* C30: create_integrated_dashboard returns the fixed "Unable to fetch
\* weather data" document exactly when the forecast fetch failed or its
\* payload has no sample list, whether or not the current-weather fetch
\* succeeded; save_dashboard then writes that document and returns the file
\* name as for a successful run, and no request for a comparison city is
\* issued.
C30_UnableDocumentIffForecastFailedOrNoList ==
    ForecastFetched =>
        /\ last_call.html = UnableDocument
              <=> (empty_dict(last_call.forecast_data)
                     \/ "list" \notin DOMAIN last_call.forecast_data)
        /\ (last_call.pc = "done" /\ last_call.html = UnableDocument) =>
              /\ last_call.written = UnableDocument
              /\ last_call.returned = dashboard_filename(last_call.city)
              /\ ComparisonGets = {}
              /\ Len(client_trace) = 2

\* C30 as the code has it: the document is also returned when the payload
\* has a sample list that is empty.
C30_UnableDocumentIffNoSample ==
    ForecastFetched =>
        /\ last_call.html = UnableDocument
              <=> (\/ empty_dict(last_call.forecast_data)
                   \/ "list" \notin DOMAIN last_call.forecast_data
                   \/ last_call.forecast_data["list"] = <<>>)
        /\ last_call.pc \in {"write", "done"} => last_call.html # ""
        /\ (last_call.pc = "done" /\ last_call.html = UnableDocument) =>
              /\ last_call.written = UnableDocument
              /\ last_call.returned = dashboard_filename(last_call.city)
              /\ ComparisonGets = {}
              /\ Len(client_trace) = 2

\* The current weather of New York was fetched, the forecast request
\* failed, two comparison cities were given: the failure document is saved
C30_Witness_FailureDocumentSaved ==
    /\ Running("done")
    /\ last_call.city = "New York"
    /\ ~empty_dict(last_call.current_data)
    /\ empty_dict(last_call.forecast_data)
    /\ Len(last_call.multi_cities) = 2
    /\ last_call.written = UnableDocument
    /\ last_call.returned = "weather_dashboard_New_York_20240101_120000.html"

====
